---- MODULE Spec2Model ----
(***************************************************************************)
(* Attendance reconciliation engine (src/asistencia_automatica.py).        *)
(*                                                                         *)
(* The three sheets of the workbook are the state: REGISTRO_DIARIO (the    *)
(* raw log), REGISTRO_CALENDARIO (the ledger: a header row and data rows   *)
(* of cells) and HORARIOLABORAL (the schedule rules).  Every cell is a     *)
(* string, as the Sheets API returns it.  Each stage of SistemaAsistencia  *)
(* is one operator from the sheets it reads to the rows it leaves behind   *)
(* and its boolean result; the actions apply the stages to the workbook.   *)
(* Positions are 1-based here and 0-based in the source.                   *)
(***************************************************************************)
EXTENDS Integers, Sequences, FiniteSets, TLC

VARIABLES
    diario,        \* data rows of REGISTRO_DIARIO, in sheet order
    encabezados,   \* header row of REGISTRO_CALENDARIO
    calendario,    \* data rows of REGISTRO_CALENDARIO, each a row of cells
    horario,       \* data rows of HORARIOLABORAL
    idAuto,        \* whether the workbook fills ID_Calendario by formula
    pc,            \* the stage the running invocation of main executes next
    resultados,    \* the results of the stages the invocation has run
    codigo,        \* the exit code of the last invocation that ended
    vistos,        \* the raw events the log held at the last ingestion that succeeded
    ult,           \* the last stage run: its name, the API failure it met, its result
    corridas,      \* two invocations racing through their ingestion stage: what each holds
    pagos,         \* data rows of PAGOS, the sheet the payments script reads
    pagoscheck,    \* rows of PAGOSCHECK, header included, the sheet that script writes
    hoy,           \* the clock of the machine that runs the payments script
    codigo_pagos   \* the exit code of the last run of the payments script

\* what the attendance engine never touches
vars_ajenas == <<corridas, pagos, pagoscheck, hoy, codigo_pagos>>

vars == <<diario, encabezados, calendario, horario, idAuto, pc, resultados, codigo,
          vistos, ult, vars_ajenas>>

----------------------------------------------------------------------------
(* Bounds of the model *)

\* most raw events the log holds
MaxDiario == 3

----------------------------------------------------------------------------
(* Sequences *)

Max(S) == CHOOSE m \in S : \A x \in S : x <= m

Min(S) == CHOOSE m \in S : \A x \in S : m <= x

\* list.index(x) as a 1-based position; 0 stands for the ValueError / KeyError
Indice(s, x) ==
    IF \E i \in 1..Len(s) : s[i] = x
    THEN Min({i \in 1..Len(s) : s[i] = x})
    ELSE 0

\* [f(s[1]), ..., f(s[n])]
Mapear(f(_), s) == [k \in 1..Len(s) |-> f(s[k])]

RECURSIVE Aplanar(_)
\* the concatenation of a sequence of sequences
Aplanar(ss) == IF ss = <<>> THEN <<>> ELSE Head(ss) \o Aplanar(Tail(ss))

----------------------------------------------------------------------------
(* The workbook as the Sheets API shows it *)

\* the ledger's header row
EncabezadoCalendario ==
    <<"Colaborador", "HoraEntrada", "HoraSalida", "FechaEntrada", "FechaSalida",
      "Descripcion", "Extratime", "Minutos", "Minutos_normales", "Minutos_extras",
      "ID_Calendario", "Libre1", "Libre2", "ID_Registro">>

\* values.get drops the empty cells that end a row
Recortar(fila) ==
    LET llenas == {i \in 1..Len(fila) : fila[i] # ""}
    IN  IF llenas = {} THEN <<>> ELSE SubSeq(fila, 1, Max(llenas))

\* values.get of a whole sheet: header and data rows, without the empty rows
\* that end the sheet
ValoresHoja(enc, filas) ==
    LET todas  == <<Recortar(enc)>> \o Mapear(Recortar, filas)
        llenas == {k \in 1..Len(todas) : todas[k] # <<>>}
    IN  IF llenas = {} THEN <<>> ELSE SubSeq(todas, 1, Max(llenas))

\* the value the workbook shows in ID_Calendario of data row k when the column
\* is a formula column: a unique identifier of the row
IdCalendarioDeHoja(k) == ToString(k)

\* the ledger rows after the workbook recalculated its formula column
HojaCalculada(enc, filas, auto) ==
    LET c == Indice(enc, "ID_Calendario")
    IN  IF auto /\ c > 0
        THEN [k \in 1..Len(filas) |-> [filas[k] EXCEPT ![c] = IdCalendarioDeHoja(k)]]
        ELSE filas

\* what a failed API call, or an empty sheet, makes leer_hoja return
Nulo == [nulo |-> TRUE, columnas |-> <<>>, filas |-> <<>>]

\* row + [''] * (num_columns - len(row))
Completar(fila, n) == fila \o [i \in 1..(n - Len(fila)) |-> ""]

\* leer_hoja on a header-driven sheet: the DataFrame, or None
leer_hoja(enc, filas, disponible) ==
    LET values == ValoresHoja(enc, filas)
    IN  IF ~disponible \/ values = <<>> THEN Nulo
        ELSE IF Len(values) > 1
        THEN LET headers == values[1]
                 num_columns == Len(headers)
                 data_rows == [k \in 1..(Len(values) - 1) |->
                                  IF Len(values[k + 1]) < num_columns
                                  THEN Completar(values[k + 1], num_columns)
                                  ELSE values[k + 1]]
             IN  \* pd.DataFrame raises when a row is wider than the header
                 IF \E k \in 1..Len(data_rows) : Len(data_rows[k]) > num_columns
                 THEN Nulo
                 ELSE [nulo |-> FALSE, columnas |-> headers, filas |-> data_rows]
        \* only the header row: a one-row frame whose columns have no names
        ELSE [nulo |-> FALSE, columnas |-> <<>>, filas |-> values]

\* leer_hoja on a sheet whose rows the model keeps as records (its header is
\* fixed): con_nombres is FALSE for the one-row frame of a header-only sheet
leer_registros(filas, disponible) ==
    IF ~disponible THEN [nulo |-> TRUE, con_nombres |-> FALSE, filas |-> <<>>, n |-> 0]
    ELSE IF Len(filas) > 0
    THEN [nulo |-> FALSE, con_nombres |-> TRUE, filas |-> filas, n |-> Len(filas)]
    ELSE [nulo |-> FALSE, con_nombres |-> FALSE, filas |-> <<>>, n |-> 1]

\* whether df.loc[i, nombre] raises KeyError
SinColumna(df, nombre) == Indice(df.columnas, nombre) = 0

\* df.loc[i, nombre], i 1-based
Celda(df, i, nombre) == df.filas[i][Indice(df.columnas, nombre)]

----------------------------------------------------------------------------
(* Failures of the external store *)

\* the API call of a stage that fails, if any: one of its two reads, or a call
\* of its write helper
Fallos == {"ninguno", "leer_calendario", "leer_diario", "leer_horario", "escribir"}

----------------------------------------------------------------------------
(* Stage 1: procesar_nuevas_entradas *)

\* a backward search that never finds the anchor
BuscarSinHallar(dia, id, i) == 0

RECURSIVE BuscarDesdeFinal(_, _, _)
\* the position of the last row of the raw log, at or before i, whose ID is id
\* (the backward loops of the stages); 0 when there is none
BuscarDesdeFinal(dia, id, i) ==
    IF i = 0 THEN 0
    ELSE IF dia[i].ID = id THEN i
    ELSE BuscarDesdeFinal(dia, id, i - 1)

\* index_nuevo without the increment that steps over the anchor
index_nuevo_sin_avance(dia, ultimo_id) ==
    LET Desde(hallado) == IF hallado > 0 THEN hallado - 1 ELSE 0
    IN  Desde(BuscarDesdeFinal(dia, ultimo_id, Len(dia)))

\* index_nuevo after the backward search and its increment, as the source's
\* 0-based position of the first raw event to scan
index_nuevo(dia, ultimo_id) ==
    LET hallado == BuscarDesdeFinal(dia, ultimo_id, Len(dia))
    IN  (IF hallado > 0 THEN hallado - 1 ELSE 0) + 1

\* the entrada dict of a raw event
Entrada(ev) ==
    [Colaborador |-> ev.Colaborador, HoraEntrada |-> ev.Hora,
     FechaEntrada |-> ev.Fecha, ID_Registro |-> ev.ID]

\* the forward loop without its test of Etapa: one entrada per raw event from
\* index_nuevo on
entradas_nuevas_sin_filtro(dia, ultimo_id) ==
    LET desde == index_nuevo(dia, ultimo_id) + 1
        resto == SubSeq(dia, desde, Len(dia))
    IN  Mapear(Entrada, resto)

\* the forward loop: one entrada per raw event of stage Entrada from index_nuevo on
entradas_nuevas(dia, ultimo_id) ==
    LET desde == index_nuevo(dia, ultimo_id) + 1
        resto == SubSeq(dia, desde, Len(dia))
        EsEntrada(ev) == ev.Etapa = "Entrada"
    IN  Mapear(Entrada, SelectSeq(resto, EsEntrada))

\* the 14 cells written for an entrada
FilaNueva(entrada) ==
    <<entrada.Colaborador, entrada.HoraEntrada, "", entrada.FechaEntrada,
      "", "", "", "", "", "", "", "", "", entrada.ID_Registro>>

\* escribir_a_sheets as one request per row: a failure of the API, met at the
\* second request, leaves the first row of datos in the sheet
escribir_a_sheets_por_fila(enc, filas, datos, auto, disponible) ==
    LET hoja == <<enc>> \o filas
        llenasA == {k \in 1..Len(hoja) : hoja[k][1] # ""}
        ultima_fila == (IF llenasA = {} THEN 0 ELSE Max(llenasA)) + 1
        escritos == IF disponible \/ datos = <<>> THEN datos ELSE <<Head(datos)>>
        fin == ultima_fila + Len(escritos) - 1
        largo == IF fin > Len(hoja) THEN fin ELSE Len(hoja)
        nueva == [k \in 1..largo |->
                     IF k >= ultima_fila /\ k <= fin
                     THEN escritos[k - ultima_fila + 1]
                     ELSE hoja[k]]
    IN  [ok |-> disponible, enc |-> nueva[1],
         filas |-> HojaCalculada(nueva[1], Tail(nueva), auto)]

\* escribir_a_sheets: datos written from the row after the last occupied row of
\* column A; [ok, enc, filas] is the result and the sheet left behind
escribir_a_sheets(enc, filas, datos, auto, disponible) ==
    IF ~disponible THEN [ok |-> FALSE, enc |-> enc, filas |-> filas]
    ELSE LET hoja == <<enc>> \o filas
             llenasA == {k \in 1..Len(hoja) : hoja[k][1] # ""}
             ultima_fila == (IF llenasA = {} THEN 0 ELSE Max(llenasA)) + 1
             fin == ultima_fila + Len(datos) - 1
             largo == IF fin > Len(hoja) THEN fin ELSE Len(hoja)
             nueva == [k \in 1..largo |->
                          IF k >= ultima_fila /\ k <= fin
                          THEN datos[k - ultima_fila + 1]
                          ELSE hoja[k]]
         IN  [ok |-> TRUE, enc |-> nueva[1],
              filas |-> HojaCalculada(nueva[1], Tail(nueva), auto)]

\* what a stage leaves when it returns False without writing
SinCambio(enc, cal) ==
    [ok |-> FALSE, enc |-> enc, filas |-> cal, entradas |-> <<>>,
     salidas |-> <<>>, calculos |-> <<>>, lote |-> <<>>]

\* the stage after its search: nothing to write, or the entradas written by
\* escribir_a_sheets, whose result resultado is
escribir_entradas(enc, cal, entradas, resultado) ==
    IF entradas = <<>>
    THEN [SinCambio(enc, cal) EXCEPT !.ok = TRUE]
    ELSE [SinCambio(enc, cal) EXCEPT
             !.ok = resultado.ok, !.enc = resultado.enc,
             !.filas = resultado.filas, !.entradas = entradas]

\* the stage after its two reads, on the frames it read
entradas_de_hojas(enc, cal, auto, fallo, registro_calendario, registro_diario) ==
    IF registro_calendario.nulo \/ registro_diario.nulo THEN SinCambio(enc, cal)
    ELSE IF Len(registro_calendario.filas) = 0 \/ registro_diario.n = 0
    THEN SinCambio(enc, cal)
    \* KeyError of .loc[..., "ID_Registro"] or .loc[..., "ID"], caught at the end
    ELSE IF SinColumna(registro_calendario, "ID_Registro") THEN SinCambio(enc, cal)
    ELSE IF ~registro_diario.con_nombres THEN SinCambio(enc, cal)
    ELSE LET Escribir(entradas) ==
                 escribir_entradas(enc, cal, entradas,
                                   escribir_a_sheets(enc, cal, Mapear(FilaNueva, entradas),
                                                     auto, fallo # "escribir"))
         IN  Escribir(entradas_nuevas(registro_diario.filas,
                                      Celda(registro_calendario,
                                            Len(registro_calendario.filas), "ID_Registro")))

\* procesar_nuevas_entradas: its result, the ledger it leaves and the entradas
\* it found
procesar_nuevas_entradas(enc, cal, dia, auto, fallo) ==
    entradas_de_hojas(enc, cal, auto, fallo,
                      leer_hoja(enc, cal, fallo # "leer_calendario"),
                      leer_registros(dia, fallo # "leer_diario"))

----------------------------------------------------------------------------
(* Stage 2: actualizar_salidas *)

\* a forward loop without its break: the last exit of the collaborator from z on
UltimaSalida(dia, z, colaborador) ==
    LET Ultima(S) == IF S = {} THEN 0 ELSE Max(S)
    IN  Ultima({k \in z..Len(dia) : dia[k].Etapa = "Salida"
                                    /\ dia[k].Colaborador = colaborador})

RECURSIVE PrimeraSalida(_, _, _)
\* the forward loop over z: the position of the first raw event, from z on, of
\* stage Salida and of the collaborator; 0 when the loop ends without a break
PrimeraSalida(dia, z, colaborador) ==
    IF z > Len(dia) THEN 0
    ELSE IF dia[z].Etapa = "Salida" /\ dia[z].Colaborador = colaborador THEN z
    ELSE PrimeraSalida(dia, z + 1, colaborador)

\* the salida dict built from the raw event at z for the ledger row i
Salida(df, i, dia, z) ==
    [Colaborador   |-> Celda(df, i, "Colaborador"),
     HoraSalida    |-> dia[z].Hora,
     FechaSalida   |-> dia[z].Fecha,
     ID_Calendario |-> Celda(df, i, "ID_Calendario"),
     Descripcion   |-> dia[z].Descripcion,
     Extratime     |-> IF dia[z].Captura = "" THEN "No" ELSE "Si",
     ID_Registro   |-> Celda(df, i, "ID_Registro")]

RECURSIVE SalidasDeFila(_, _, _, _)
\* the loop over j for the ledger row i: for each raw event with the row's
\* ID_Registro, from the end of the log backwards, the salida the z loop finds
SalidasDeFila(df, i, dia, j) ==
    IF j = 0 THEN <<>>
    ELSE LET z == PrimeraSalida(dia, j, Celda(df, i, "Colaborador"))
             hallada == dia[j].ID = Celda(df, i, "ID_Registro") /\ z > 0
         IN  (IF hallada THEN <<Salida(df, i, dia, z)>> ELSE <<>>)
             \o SalidasDeFila(df, i, dia, j - 1)

RECURSIVE salidas_pendientes(_, _, _)
\* the loop over the ledger rows, from row i up to the first: the salidas of
\* the rows whose HoraSalida is empty
salidas_pendientes(df, dia, i) ==
    IF i = 0 THEN <<>>
    ELSE (IF Celda(df, i, "HoraSalida") = ""
          THEN SalidasDeFila(df, i, dia, Len(dia))
          ELSE <<>>)
         \o salidas_pendientes(df, dia, i - 1)

\* the width of the range A:N the write helpers read
ColumnasAN == 14

\* values.get of REGISTRO_CALENDARIO!A:N
ValoresAN(enc, filas) ==
    LET Cortar(fila) == SubSeq(fila, 1, IF Len(fila) < ColumnasAN THEN Len(fila) ELSE ColumnasAN)
    IN  ValoresHoja(Cortar(enc), Mapear(Cortar, filas))

\* the sheet row (2 for the first data row) of the first row of values whose
\* cell in column col holds id; 0 for fila_encontrada = None
fila_encontrada(values, col, id) ==
    LET hallan == {i \in 2..Len(values) : Len(values[i]) >= col /\ values[i][col] = id}
    IN  IF hallan = {} THEN 0 ELSE Min(hallan)

\* one entry of a batch: the cell in column col (1 for A) of sheet row fila
Cambio(col, fila, valor) == [col |-> col, fila |-> fila, valor |-> valor]

RECURSIVE AplicarLote(_, _)
\* values.batchUpdate: the cells of the batch written, in order, into the sheet
\* (hoja is the header row followed by the data rows)
AplicarLote(hoja, lote) ==
    IF lote = <<>> THEN hoja
    ELSE LET c == Head(lote)
         IN  AplicarLote([hoja EXCEPT ![c.fila][c.col] = c.valor], Tail(lote))

\* the four updates of a salida, or none when its row is not found
CambiosSalida(values, headers, salida) ==
    LET Cambios(f) ==
            IF f = 0 THEN <<>>
            ELSE <<Cambio(Indice(headers, "HoraSalida"), f, salida.HoraSalida),
                   Cambio(Indice(headers, "FechaSalida"), f, salida.FechaSalida),
                   Cambio(Indice(headers, "Descripcion"), f, salida.Descripcion),
                   Cambio(Indice(headers, "Extratime"), f, salida.Extratime)>>
    IN  Cambios(fila_encontrada(values, Indice(headers, "ID_Calendario"),
                                salida.ID_Calendario))

\* the end of both write helpers: False for an empty batch, else the batch
\* written by values.batchUpdate
escribir_lote(enc, cal, batch_updates) ==
    IF batch_updates = <<>> THEN [ok |-> FALSE, filas |-> cal, lote |-> <<>>]
    ELSE [ok |-> TRUE, filas |-> Tail(AplicarLote(<<enc>> \o cal, batch_updates)),
          lote |-> batch_updates]

\* _actualizar_salidas_sheets whose lookup of the headers, when one is missing,
\* ends the helper with True
salidas_sheets_sin_fallo(enc, cal, salidas, values) ==
    LET CambiosDe(salida) == CambiosSalida(values, values[1], salida)
    IN  IF values = <<>> THEN [ok |-> FALSE, filas |-> cal, lote |-> <<>>]
        ELSE IF \E h \in {"ID_Calendario", "HoraSalida", "FechaSalida", "Descripcion",
                          "Extratime"} : Indice(values[1], h) = 0
        THEN [ok |-> TRUE, filas |-> cal, lote |-> <<>>]
        ELSE escribir_lote(enc, cal, Aplanar(Mapear(CambiosDe, salidas)))

\* _actualizar_salidas_sheets after its read of A:N, on the values it read
salidas_sheets_de(enc, cal, salidas, values) ==
    LET CambiosDe(salida) == CambiosSalida(values, values[1], salida)
    IN  IF values = <<>> THEN [ok |-> FALSE, filas |-> cal, lote |-> <<>>]
        ELSE IF \E h \in {"ID_Calendario", "HoraSalida", "FechaSalida", "Descripcion",
                          "Extratime"} : Indice(values[1], h) = 0
        THEN [ok |-> FALSE, filas |-> cal, lote |-> <<>>]
        ELSE escribir_lote(enc, cal, Aplanar(Mapear(CambiosDe, salidas)))

\* _actualizar_salidas_sheets: [ok, filas, lote]
actualizar_salidas_sheets(enc, cal, salidas, disponible) ==
    IF salidas = <<>> \/ ~disponible THEN [ok |-> FALSE, filas |-> cal, lote |-> <<>>]
    ELSE salidas_sheets_de(enc, cal, salidas, ValoresAN(enc, cal))

\* the stage after its search: nothing to update, or the salidas written by
\* _actualizar_salidas_sheets, whose result resultado is
escribir_salidas(enc, cal, salidas, resultado) ==
    IF salidas = <<>>
    THEN [SinCambio(enc, cal) EXCEPT !.ok = TRUE]
    ELSE [SinCambio(enc, cal) EXCEPT
             !.ok = resultado.ok, !.filas = resultado.filas,
             !.salidas = salidas, !.lote = resultado.lote]

\* the ledger rows whose HoraSalida is empty
Abiertas(df) == {i \in 1..Len(df.filas) : Celda(df, i, "HoraSalida") = ""}

\* the stage after its two reads, on the frames it read
salidas_de_hojas(enc, cal, fallo, registro_calendario, registro_diario) ==
    LET Escribir(salidas) ==
            escribir_salidas(enc, cal, salidas,
                             actualizar_salidas_sheets(enc, cal, salidas,
                                                       fallo # "escribir"))
    IN  IF registro_calendario.nulo \/ registro_diario.nulo THEN SinCambio(enc, cal)
        \* KeyError of the first .loc that names a missing column, caught at the end
        ELSE IF SinColumna(registro_calendario, "HoraSalida") THEN SinCambio(enc, cal)
        ELSE IF Abiertas(registro_calendario) # {}
                /\ (\/ SinColumna(registro_calendario, "Colaborador")
                    \/ SinColumna(registro_calendario, "ID_Registro")
                    \/ ~registro_diario.con_nombres)
        THEN SinCambio(enc, cal)
        ELSE IF /\ SinColumna(registro_calendario, "ID_Calendario")
                /\ \E i \in Abiertas(registro_calendario) :
                   \E j \in 1..Len(registro_diario.filas) :
                      /\ registro_diario.filas[j].ID
                            = Celda(registro_calendario, i, "ID_Registro")
                      /\ PrimeraSalida(registro_diario.filas, j,
                                       Celda(registro_calendario, i, "Colaborador")) > 0
        THEN SinCambio(enc, cal)
        ELSE Escribir(salidas_pendientes(registro_calendario, registro_diario.filas,
                                         Len(registro_calendario.filas)))

\* actualizar_salidas: its result, the ledger it leaves, the salidas it found
\* and the batch it wrote
actualizar_salidas(enc, cal, dia, fallo) ==
    salidas_de_hojas(enc, cal, fallo,
                     leer_hoja(enc, cal, fallo # "leer_calendario"),
                     leer_registros(dia, fallo # "leer_diario"))

----------------------------------------------------------------------------
(* Text *)

Digitos == {"0", "1", "2", "3", "4", "5", "6", "7", "8", "9"}

\* int(c) of one digit
ValorDigito(c) ==
    CASE c = "0" -> 0 [] c = "1" -> 1 [] c = "2" -> 2 [] c = "3" -> 3 [] c = "4" -> 4
      [] c = "5" -> 5 [] c = "6" -> 6 [] c = "7" -> 7 [] c = "8" -> 8 [] c = "9" -> 9

\* the character of s at position i
Letra(s, i) == SubSeq(s, i, i)

\* whether s is one or more decimal digits
EsNumero(s) == Len(s) > 0 /\ \A i \in 1..Len(s) : Letra(s, i) \in Digitos

RECURSIVE Numero(_)
\* int(s) of a string of digits
Numero(s) ==
    IF Len(s) = 0 THEN 0
    ELSE 10 * Numero(SubSeq(s, 1, Len(s) - 1)) + ValorDigito(Letra(s, Len(s)))

\* s.count(sep) for a separator of one character
Cuenta(s, sep) == Cardinality({i \in 1..Len(s) : Letra(s, i) = sep})

RECURSIVE Partes(_, _)
\* s.split(sep) for a separator of one character
Partes(s, sep) ==
    LET cortes == {i \in 1..Len(s) : Letra(s, i) = sep}
    IN  IF cortes = {} THEN <<s>>
        ELSE <<SubSeq(s, 1, Min(cortes) - 1)>>
             \o Partes(SubSeq(s, Min(cortes) + 1, Len(s)), sep)

RECURSIVE Strip(_)
\* s.strip() of blanks
Strip(s) ==
    IF Len(s) > 0 /\ Letra(s, 1) = " " THEN Strip(SubSeq(s, 2, Len(s)))
    ELSE IF Len(s) > 0 /\ Letra(s, Len(s)) = " " THEN Strip(SubSeq(s, 1, Len(s) - 1))
    ELSE s

\* s.zfill(2) of an unsigned text
zfill2(s) == IF Len(s) >= 2 THEN s ELSE IF Len(s) = 1 THEN "0" \o s ELSE "00"

----------------------------------------------------------------------------
(* parsear_hora *)

\* the value parsear_hora returns for None
SinHora == -1

\* whether p is a field of strptime's %H, %M or %S: one or two digits, at most tope
CampoHora(p, tope) == Len(p) \in {1, 2} /\ EsNumero(p) /\ Numero(p) <= tope

\* datetime.strptime(s, "%H:%M:%S") as seconds since midnight; SinHora for the
\* ValueError (a second of 60 or 61 matches %S and is refused by datetime)
strptime_HMS(s) ==
    LET partes == Partes(s, ":")
    IN  IF /\ Len(partes) = 3
           /\ CampoHora(partes[1], 23)
           /\ CampoHora(partes[2], 59)
           /\ CampoHora(partes[3], 59)
        THEN 3600 * Numero(partes[1]) + 60 * Numero(partes[2]) + Numero(partes[3])
        ELSE SinHora

\* the text after the "0:00" -> "00:00:00" rewriting
NormalizarUnaMarca(s) ==
    LET partes == Partes(s, ":")
    IN  IF Cuenta(s, ":") = 1
        THEN zfill2(partes[1]) \o ":" \o zfill2(partes[2]) \o ":00"
        ELSE s

\* the text after the "6:29:47" -> "06:29:47" rewriting
NormalizarDosMarcas(s) ==
    LET partes == Partes(s, ":")
    IN  IF Cuenta(s, ":") = 2 /\ Len(partes[1]) = 1
        THEN zfill2(partes[1]) \o ":" \o partes[2] \o ":" \o partes[3]
        ELSE s

\* a parse that takes any three numbers for hours, minutes and seconds
parsear_hora_sin_rango(hora_str) ==
    LET Leer(partes) ==
            IF Len(partes) = 3 /\ \A k \in 1..3 : EsNumero(partes[k])
            THEN 3600 * Numero(partes[1]) + 60 * Numero(partes[2]) + Numero(partes[3])
            ELSE SinHora
    IN  IF hora_str = "" THEN SinHora
        ELSE Leer(Partes(NormalizarDosMarcas(NormalizarUnaMarca(Strip(hora_str))), ":"))

\* parsear_hora: seconds since midnight of the parsed time, or SinHora for None
parsear_hora(hora_str) ==
    IF hora_str = "" THEN SinHora
    ELSE strptime_HMS(NormalizarDosMarcas(NormalizarUnaMarca(Strip(hora_str))))

----------------------------------------------------------------------------
(* Dates: pd.to_datetime and day_name on the date texts of the ledger *)

\* the days of month m of year a
DiasDelMes(m, a) ==
    IF m = 2
    THEN (IF a % 4 = 0 /\ (a % 100 # 0 \/ a % 400 = 0) THEN 29 ELSE 28)
    ELSE IF m \in {4, 6, 9, 11} THEN 30 ELSE 31

\* pd.to_datetime of a cell: "" gives NaT; "x/y/yyyy" is read month first and,
\* when x cannot be a month, day first; any other text of the model's date
\* texts raises
to_datetime(s) ==
    LET partes == Partes(s, "/")
        x == Numero(partes[1])
        y == Numero(partes[2])
        a == Numero(partes[3])
        error == [estado |-> "error", a |-> 0, m |-> 0, d |-> 0]
    IN  IF s = "" THEN [estado |-> "NaT", a |-> 0, m |-> 0, d |-> 0]
        ELSE IF ~(/\ Len(partes) = 3
                  /\ Len(partes[1]) \in {1, 2} /\ EsNumero(partes[1])
                  /\ Len(partes[2]) \in {1, 2} /\ EsNumero(partes[2])
                  /\ Len(partes[3]) = 4 /\ EsNumero(partes[3]))
        THEN error
        ELSE IF x \in 1..12
        THEN (IF y \in 1..DiasDelMes(x, a)
              THEN [estado |-> "fecha", a |-> a, m |-> x, d |-> y] ELSE error)
        ELSE IF y \in 1..12 /\ x \in 1..DiasDelMes(y, a)
        THEN [estado |-> "fecha", a |-> a, m |-> y, d |-> x]
        ELSE error

\* Timestamp.day_name() of a date of the Gregorian calendar
day_name(f) ==
    LET t == <<0, 3, 2, 5, 0, 3, 5, 1, 4, 6, 2, 4>>
        a == IF f.m < 3 THEN f.a - 1 ELSE f.a
        n == (a + (a \div 4) - (a \div 100) + (a \div 400) + t[f.m] + f.d) % 7
    IN  <<"Sunday", "Monday", "Tuesday", "Wednesday", "Thursday", "Friday",
          "Saturday">>[n + 1]

dias_map ==
    [d \in {"Monday", "Tuesday", "Wednesday", "Thursday", "Friday", "Saturday", "Sunday"} |->
        CASE d = "Monday" -> "Lunes" [] d = "Tuesday" -> "Martes"
          [] d = "Wednesday" -> "Miercoles" [] d = "Thursday" -> "Jueves"
          [] d = "Friday" -> "Viernes" [] d = "Saturday" -> "Sabado"
          [] d = "Sunday" -> "Domingo"]

dias_name == <<"Lunes", "Martes", "Miercoles", "Jueves", "Viernes", "Sabado", "Domingo">>

\* dia_espanol of a parsed date; NaT has no day name
dia_espanol(f) == IF f.estado = "NaT" THEN "nan" ELSE dias_map[day_name(f)]

----------------------------------------------------------------------------
(* Stage 3: calcular_minutos *)

\* int(x / d) of Python: the quotient cut towards zero
Truncar(x, d) == IF x >= 0 THEN x \div d ELSE -((-x) \div d)

\* minutos: the whole minutes from entry to exit, a day added when negative
minutos_totales(entrada_seg, salida_seg) ==
    LET minutos == Truncar(salida_seg - entrada_seg, 60)
    IN  IF minutos < 0 THEN minutos + 1440 ELSE minutos

\* minutos_extras before int(), in seconds: the time before the window's start
\* plus the time after its end
segundos_extras(inicio_seg, fin_seg, entrada_seg, salida_seg) ==
    (IF inicio_seg > entrada_seg THEN inicio_seg - entrada_seg ELSE 0)
    + (IF fin_seg < salida_seg THEN salida_seg - fin_seg ELSE 0)

\* one turn of the loop over the rules, on the parsed window of the rule:
\* "error" for the ValueError of dias_name.index, "hallado" with the extra
\* seconds at the break, "otra" when the loop goes on to the next rule
probar_regla(regla, dia, entrada_seg, salida_seg, hora_inicio_dt, hora_fin_dt) ==
    LET Rango(rango_dias) ==
            <<Indice(dias_name, rango_dias[1]),
              Indice(dias_name, rango_dias[Len(rango_dias)])>>
        Probar(r) ==
            IF r[1] = 0 \/ r[2] = 0 THEN [estado |-> "error", extras_seg |-> 0]
            ELSE IF dia \in {dias_name[k] : k \in r[1]..r[2]}
                    /\ hora_inicio_dt # SinHora /\ hora_fin_dt # SinHora
            THEN [estado |-> "hallado",
                  extras_seg |-> segundos_extras(hora_inicio_dt, hora_fin_dt,
                                                 entrada_seg, salida_seg)]
            ELSE [estado |-> "otra", extras_seg |-> 0]
    IN  Probar(Rango(Partes(regla.dias, "-")))

RECURSIVE buscar_horario(_, _, _, _, _)
\* the loop over the collaborator's rules from rule j on; "sin" when it ends
\* without a break
buscar_horario(resultado, j, dia, entrada_seg, salida_seg) ==
    LET Seguir(r) ==
            IF r.estado = "otra"
            THEN buscar_horario(resultado, j + 1, dia, entrada_seg, salida_seg)
            ELSE r
    IN  IF j > Len(resultado) THEN [estado |-> "sin", extras_seg |-> 0]
        ELSE Seguir(probar_regla(resultado[j], dia, entrada_seg, salida_seg,
                                 parsear_hora(resultado[j].hora_entrada),
                                 parsear_hora(resultado[j].hora_salida)))

\* the calculo dict of a row of minutos minutes whose ID_Calendario is id, on
\* what the loop over the rules gave
calculo_de_regla(minutos, id, regla) ==
    IF regla.estado = "error"
    THEN [estado |-> "error",
          calculo |-> [Minutos |-> 0, Minutos_normales |-> 0, Minutos_extras |-> 0,
                       ID_Calendario |-> ""]]
    ELSE [estado |-> "calculo",
          calculo |->
            [Minutos |-> minutos,
             Minutos_normales |->
                IF regla.estado = "hallado"
                THEN Truncar(60 * minutos - regla.extras_seg, 60) ELSE 0,
             Minutos_extras |->
                IF regla.estado = "hallado" THEN Truncar(regla.extras_seg, 60) ELSE 0,
             ID_Calendario |-> id]]

\* the body of the loop from the parsed times on: "omitida" for the continue,
\* "error" for an exception that ends the stage, else the calculo dict
calculo_de_horas(df, i, resultado, hora_entrada_dt, hora_salida_dt, fecha_dt) ==
    LET nada == [Minutos |-> 0, Minutos_normales |-> 0, Minutos_extras |-> 0,
                 ID_Calendario |-> ""]
    IN  IF hora_entrada_dt = SinHora \/ hora_salida_dt = SinHora
        THEN [estado |-> "omitida", calculo |-> nada]
        ELSE IF fecha_dt.estado = "error" THEN [estado |-> "error", calculo |-> nada]
        ELSE calculo_de_regla(minutos_totales(hora_entrada_dt, hora_salida_dt),
                              Celda(df, i, "ID_Calendario"),
                              buscar_horario(resultado, 1, dia_espanol(fecha_dt),
                                             hora_entrada_dt, hora_salida_dt))

\* the body of the loop for one pending ledger row
calculo_de_fila(df, i, df_horario) ==
    LET EsDelColaborador(regla) == regla.Colaborador = Celda(df, i, "Colaborador")
    IN  \* sqldf finds no column Colaborador in a header-only HORARIOLABORAL
        IF ~df_horario.con_nombres
        THEN [estado |-> "error",
              calculo |-> [Minutos |-> 0, Minutos_normales |-> 0, Minutos_extras |-> 0,
                           ID_Calendario |-> ""]]
        ELSE calculo_de_horas(df, i, SelectSeq(df_horario.filas, EsDelColaborador),
                              parsear_hora(Celda(df, i, "HoraEntrada")),
                              parsear_hora(Celda(df, i, "HoraSalida")),
                              to_datetime(Celda(df, i, "FechaEntrada")))

\* the three updates of a calculo, or none when its row is not found; an int
\* is shown by the sheet as its decimal text
CambiosCalculo(values, headers, calculo) ==
    LET Cambios(f) ==
            IF f = 0 THEN <<>>
            ELSE <<Cambio(Indice(headers, "Minutos"), f, ToString(calculo.Minutos)),
                   Cambio(Indice(headers, "Minutos_normales"), f,
                          ToString(calculo.Minutos_normales)),
                   Cambio(Indice(headers, "Minutos_extras"), f,
                          ToString(calculo.Minutos_extras))>>
    IN  Cambios(fila_encontrada(values, Indice(headers, "ID_Calendario"),
                                calculo.ID_Calendario))

\* _actualizar_minutos_sheets after its read of A:N, on the values it read
minutos_sheets_de(enc, cal, minutos_calculados, values) ==
    LET CambiosDe(calculo) == CambiosCalculo(values, values[1], calculo)
    IN  IF values = <<>> THEN [ok |-> FALSE, filas |-> cal, lote |-> <<>>]
        ELSE IF \E h \in {"ID_Calendario", "Minutos", "Minutos_normales",
                          "Minutos_extras"} : Indice(values[1], h) = 0
        THEN [ok |-> FALSE, filas |-> cal, lote |-> <<>>]
        ELSE escribir_lote(enc, cal, Aplanar(Mapear(CambiosDe, minutos_calculados)))

\* _actualizar_minutos_sheets: [ok, filas, lote]
actualizar_minutos_sheets(enc, cal, minutos_calculados, disponible) ==
    IF minutos_calculados = <<>> \/ ~disponible
    THEN [ok |-> FALSE, filas |-> cal, lote |-> <<>>]
    ELSE minutos_sheets_de(enc, cal, minutos_calculados, ValoresAN(enc, cal))

\* the test of the loop without its condition on Minutos
PendienteSinMinutos(df, i) == Celda(df, i, "HoraSalida") # ""

\* whether the loop of calcular_minutos enters its body for row i
Pendiente(df, i) == Celda(df, i, "Minutos") = "" /\ Celda(df, i, "HoraSalida") # ""

RECURSIVE calculos_pendientes(_, _, _)
\* the loop over the ledger rows, from row i up to the first: what the body
\* gives for each pending row
calculos_pendientes(df, df_horario, i) ==
    IF i = 0 THEN <<>>
    ELSE (IF Pendiente(df, i) THEN <<calculo_de_fila(df, i, df_horario)>> ELSE <<>>)
         \o calculos_pendientes(df, df_horario, i - 1)

\* the stage after its loop: nothing to update, or the calculos written by
\* _actualizar_minutos_sheets, whose result resultado is
escribir_minutos(enc, cal, minutos_calculados, resultado) ==
    IF minutos_calculados = <<>>
    THEN [SinCambio(enc, cal) EXCEPT !.ok = TRUE]
    ELSE [SinCambio(enc, cal) EXCEPT
             !.ok = resultado.ok, !.filas = resultado.filas,
             !.calculos = minutos_calculados, !.lote = resultado.lote]

\* the stage after its loop, on what the body gave for the pending rows
minutos_de_cuerpos(enc, cal, fallo, cuerpos) ==
    LET EsCalculo(c) == c.estado = "calculo"
        ElCalculo(c) == c.calculo
        Escribir(minutos_calculados) ==
            escribir_minutos(enc, cal, minutos_calculados,
                             actualizar_minutos_sheets(enc, cal, minutos_calculados,
                                                       fallo # "escribir"))
    IN  \* an exception in the body of the loop, caught at the end
        IF \E k \in 1..Len(cuerpos) : cuerpos[k].estado = "error"
        THEN SinCambio(enc, cal)
        ELSE Escribir(Mapear(ElCalculo, SelectSeq(cuerpos, EsCalculo)))

\* the stage after its two reads, on the frames it read
minutos_de_hojas(enc, cal, fallo, registro_calendario, horario_laboral) ==
    IF registro_calendario.nulo \/ horario_laboral.nulo THEN SinCambio(enc, cal)
    \* KeyError of the first .loc that names a missing column, caught at the end
    ELSE IF SinColumna(registro_calendario, "Minutos") THEN SinCambio(enc, cal)
    ELSE IF SinColumna(registro_calendario, "HoraSalida")
            /\ \E i \in 1..Len(registro_calendario.filas) :
                  Celda(registro_calendario, i, "Minutos") = ""
    THEN SinCambio(enc, cal)
    ELSE IF /\ \E h \in {"Colaborador", "HoraEntrada", "FechaEntrada", "ID_Calendario"} :
                  SinColumna(registro_calendario, h)
            /\ \E i \in 1..Len(registro_calendario.filas) : Pendiente(registro_calendario, i)
    THEN SinCambio(enc, cal)
    ELSE minutos_de_cuerpos(enc, cal, fallo,
                            calculos_pendientes(registro_calendario, horario_laboral,
                                                Len(registro_calendario.filas)))

\* calcular_minutos: its result, the ledger it leaves, the calculos it made and
\* the batch it wrote
calcular_minutos(enc, cal, hor, fallo) ==
    minutos_de_hojas(enc, cal, fallo,
                     leer_hoja(enc, cal, fallo # "leer_calendario"),
                     leer_registros(hor, fallo # "leer_horario"))

----------------------------------------------------------------------------
(* ejecutar_proceso_completo and main *)

\* any() in the place of all()
algun_exito(valores) == \E k \in 1..Len(valores) : valores[k]

\* all(resultados.values())
exito_total(valores) == \A k \in 1..Len(valores) : valores[k]

\* sys.exit(0 if exito else 1)
codigo_de_salida(exito) == IF exito THEN 0 ELSE 1

\* the exit code while no run has ended yet
SinCodigo == -1

----------------------------------------------------------------------------
(* The workbook the engine runs on *)

Colaboradores == {"Ana", "Luis"}

\* the raw events the form submits: an entry or an exit of a collaborator
Plantillas ==
    {[Colaborador |-> c, Etapa |-> e] : c \in Colaboradores, e \in {"Entrada", "Salida"}}

\* the raw event of template p as the n-th row of the log: the form stamps it
\* with the next ID and the hour of its submission; an exit of Luis comes with
\* a capture of his request for extra hours
Evento(p, n) ==
    [ID |-> "e" \o ToString(n), Colaborador |-> p.Colaborador, Etapa |-> p.Etapa,
     Fecha |-> "15/09/2025", Hora |-> ToString(7 + n) \o ":30:00",
     Descripcion |-> IF p.Etapa = "Salida" THEN "fin " \o ToString(n) ELSE "",
     Captura |-> IF p.Etapa = "Salida" /\ p.Colaborador = "Luis"
                 THEN "captura.png" ELSE ""]

\* the schedule rules of the workbook
HorarioBase ==
    <<[Colaborador |-> "Ana", dias |-> "Lunes-Viernes", hora_entrada |-> "09:00",
       hora_salida |-> "18:00"]>>

\* the ledger starts with one open row entered by hand, with the collaborator,
\* hour and date of the first raw event (the engine never ingests the first row
\* of the log); its ID_Registro is that of the event when it is an entry, or
\* one the log does not hold
FilaInicial(ev, id) ==
    [FilaNueva(Entrada(ev)) EXCEPT
        ![Indice(EncabezadoCalendario, "ID_Calendario")] = IdCalendarioDeHoja(1),
        ![Indice(EncabezadoCalendario, "ID_Registro")] = id]

\* the invocations of the race
Corridas == {1, 2}

\* an invocation that has not started
SinEmpezar ==
    [pc |-> "inicio", tras |-> "inicio", registro_calendario |-> Nulo,
     datos |-> <<>>, ultima_fila |-> 0, ok |-> FALSE]

SinCodigoPagos == -1

\* the first instant of 15/09/2025
Medianoche == [a |-> 2025, m |-> 9, d |-> 15, seg |-> 0, us |-> 0]

\* no invocation of the race under way, and the payments script at rest
AjenasEnReposo ==
    /\ corridas = [r \in Corridas |-> SinEmpezar]
    /\ pagos = <<>>
    /\ pagoscheck = <<>>
    /\ hoy = Medianoche
    /\ codigo_pagos = SinCodigoPagos

SinEtapa == [op |-> "inicio", fallo |-> "ninguno", ok |-> TRUE]

Init ==
    /\ \E p \in {q \in Plantillas : q.Colaborador = "Ana"} :
          /\ diario = <<Evento(p, 1)>>
          /\ \E id \in (IF p.Etapa = "Entrada" THEN {"e1", "e0"} ELSE {"e0"}) :
                calendario = <<FilaInicial(Evento(p, 1), id)>>
    /\ encabezados = EncabezadoCalendario
    /\ horario = HorarioBase
    /\ idAuto \in BOOLEAN
    /\ pc = "entradas"
    /\ resultados = <<>>
    /\ codigo = SinCodigo
    /\ vistos = 0
    /\ ult = SinEtapa
    /\ AjenasEnReposo

\* a collaborator submits the form: one more row in the raw log
NuevoEvento ==
    /\ Len(diario) < MaxDiario
    /\ \E p \in Plantillas : diario' = Append(diario, Evento(p, Len(diario) + 1))
    /\ UNCHANGED <<encabezados, calendario, horario, idAuto, pc, resultados, codigo,
                   vistos, ult, vars_ajenas>>

\* a run of main whose constructor raises (no sheet id, no credentials): exit 1
\* before any stage
MainSinConfiguracion ==
    /\ pc = "entradas"
    /\ resultados' = <<>>
    /\ codigo' = codigo_de_salida(FALSE)
    /\ ult' = [op |-> "configurar", fallo |-> "ninguno", ok |-> FALSE]
    /\ UNCHANGED <<diario, encabezados, calendario, horario, idAuto, pc, vistos,
                   vars_ajenas>>

\* main starts and ejecutar_proceso_completo runs procesar_nuevas_entradas
ProcesarNuevasEntradas ==
    /\ pc = "entradas"
    /\ \E f \in {"ninguno", "leer_calendario", "leer_diario", "escribir"} :
          \E r \in {procesar_nuevas_entradas(encabezados, calendario, diario, idAuto, f)} :
              /\ encabezados' = r.enc
              /\ calendario' = r.filas
              /\ resultados' = <<r.ok>>
              /\ vistos' = IF r.ok THEN Len(diario) ELSE vistos
              /\ ult' = [op |-> "entradas", fallo |-> f, ok |-> r.ok]
    /\ pc' = "salidas"
    /\ UNCHANGED <<diario, horario, idAuto, codigo, vars_ajenas>>

\* ejecutar_proceso_completo runs actualizar_salidas
ActualizarSalidas ==
    /\ pc = "salidas"
    /\ \E f \in {"ninguno", "leer_calendario", "leer_diario", "escribir"} :
          \E r \in {actualizar_salidas(encabezados, calendario, diario, f)} :
              /\ calendario' = r.filas
              /\ resultados' = Append(resultados, r.ok)
              /\ ult' = [op |-> "salidas", fallo |-> f, ok |-> r.ok]
    /\ pc' = "minutos"
    /\ UNCHANGED <<diario, encabezados, horario, idAuto, codigo, vistos, vars_ajenas>>

\* ejecutar_proceso_completo runs calcular_minutos and returns, and main exits
CalcularMinutos ==
    /\ pc = "minutos"
    /\ \E f \in {"ninguno", "leer_calendario", "leer_horario", "escribir"} :
          \E r \in {calcular_minutos(encabezados, calendario, horario, f)} :
              /\ calendario' = r.filas
              /\ resultados' = Append(resultados, r.ok)
              /\ codigo' = codigo_de_salida(exito_total(resultados'))
              /\ ult' = [op |-> "minutos", fallo |-> f, ok |-> r.ok]
    /\ pc' = "entradas"
    /\ UNCHANGED <<diario, encabezados, horario, idAuto, vistos, vars_ajenas>>

Next ==
    \/ NuevoEvento
    \/ MainSinConfiguracion
    \/ ProcesarNuevasEntradas
    \/ ActualizarSalidas
    \/ CalcularMinutos

Spec == Init /\ [][Next]_vars

----------------------------------------------------------------------------
(* calcular_minutos on the closed rows a ledger can hold *)

\* the closed rows, beside the one under study, of a ledger of the study
MaxOtras == 1

\* hour texts of a closed row: whole minutes, seconds, the short form, hours
\* around midnight, and a text that is no hour
HorasDePrueba ==
    {"08:30", "08:59:30", "09:00:00", "17:30:00", "18:45", "22:00:00", "02:00:00",
     "02:00:30", "25:99"}

\* date texts of a row: a Monday, a Saturday, a text that is no date, no text
FechasDePrueba == {"15/09/2025", "20/09/2025", "ayer", ""}

\* schedule tables: Ana's week, and Ana's week with a Saturday shift
HorariosDePrueba ==
    {HorarioBase,
     HorarioBase \o <<[Colaborador |-> "Ana", dias |-> "Sabado", hora_entrada |-> "10:00",
                       hora_salida |-> "14:00:30"]>>}

\* a closed ledger row that waits for its minutes
FilaCerrada(c, he, hs, fe) ==
    <<c, he, hs, fe, fe, "", "No", "", "", "", "", "", "", "">>

\* the other rows of the ledger: a closed row of Ana that waits for its minutes,
\* and a row of Luis whose minutes are already there
OtrasFilas ==
    {FilaCerrada("Ana", "08:30", "18:45", "15/09/2025"),
     <<"Luis", "09:00:00", "17:30:00", "15/09/2025", "15/09/2025", "", "No",
       "510", "510", "0", "", "", "", "">>}

\* the rows as the workbook holds them: each with the ID_Registro of its entry
\* event and its calculated ID_Calendario
Numerar(filas) ==
    HojaCalculada(EncabezadoCalendario,
                  [k \in 1..Len(filas) |->
                      [filas[k] EXCEPT ![Indice(EncabezadoCalendario, "ID_Registro")] =
                                          "e" \o ToString(k)]],
                  TRUE)

InitMinutos ==
    /\ \E c \in Colaboradores, he \in HorasDePrueba, hs \in HorasDePrueba,
          fe \in FechasDePrueba, antes \in BOOLEAN :
          \E n \in 0..MaxOtras : \E otras \in [1..n -> OtrasFilas] :
             calendario = Numerar(IF antes
                                  THEN <<FilaCerrada(c, he, hs, fe)>> \o otras
                                  ELSE otras \o <<FilaCerrada(c, he, hs, fe)>>)
    /\ horario \in HorariosDePrueba
    /\ diario = <<Evento([Colaborador |-> "Ana", Etapa |-> "Entrada"], 1)>>
    /\ encabezados = EncabezadoCalendario
    /\ idAuto = TRUE
    /\ pc = "minutos"
    /\ resultados = <<TRUE, TRUE>>
    /\ codigo = SinCodigo
    /\ vistos = 0
    /\ ult = [op |-> "salidas", fallo |-> "ninguno", ok |-> TRUE]
    /\ AjenasEnReposo

NextMinutos == CalcularMinutos

SpecMinutos == InitMinutos /\ [][NextMinutos]_vars

----------------------------------------------------------------------------
(* Properties of the engine's runs *)

\* C1: when the last run of procesar_nuevas_entradas that returned True saw the
\* whole raw log (no raw event was added since), one more run of it, whatever
\* API call fails in it, finds no entrada and leaves the ledger, header and
\* rows, as it is: the second of two runs in a row appends zero records.
C1_SegundaIngestionVacia ==
    vistos = Len(diario) =>
        \A f \in {"ninguno", "leer_calendario", "leer_diario", "escribir"} :
           \E r \in {procesar_nuevas_entradas(encabezados, calendario, diario, idAuto, f)} :
              /\ r.entradas = <<>>
              /\ r.filas = calendario
              /\ r.enc = encabezados

\* a run of procesar_nuevas_entradas has just returned True and the ledger
\* holds rows that the engine appended
C1_Testigo ==
    /\ ult.op = "entradas" /\ ult.ok /\ pc = "salidas"
    /\ vistos = Len(diario)
    /\ Len(calendario) > 1

\* C2: in every state the runs of the engine reach, with raw events added
\* between and during them, no two ledger rows carry the same ID_Registro.
C2_UnRegistroPorEntrada ==
    \A i, j \in 1..Len(calendario) :
       i # j => calendario[i][Indice(encabezados, "ID_Registro")]
                   # calendario[j][Indice(encabezados, "ID_Registro")]

\* the engine appended two rows to the ledger and a later complete run ended
\* with every stage successful
C2_Testigo ==
    /\ Len(calendario) >= 3
    /\ vistos = Len(diario)
    /\ ult.op = "minutos" /\ codigo = 0

\* C3: in every run of actualizar_salidas, each salida the stage finds for an
\* open ledger row is built from the first raw event, after the position of the
\* event whose ID is the row's ID_Registro, that is a Salida of the row's
\* collaborator; and, when the workbook gives every row its own ID_Calendario,
\* every row the run closes holds the hour of that event.
C3_PrimeraSalidaPropia ==
    [][(pc = "salidas" /\ pc' = "minutos") =>
        LET Propias(id) == {p \in 1..Len(diario) : diario[p].ID = id}
            Candidatas(p, c) ==
                {z \in (p + 1)..Len(diario) :
                    diario[z].Etapa = "Salida" /\ diario[z].Colaborador = c}
            EsLaPrimera(id, c, hora, descripcion) ==
                \E p \in Propias(id) :
                   /\ Candidatas(p, c) # {}
                   /\ diario[p].Colaborador = c
                   /\ diario[Min(Candidatas(p, c))].Hora = hora
                   /\ descripcion \in {"", diario[Min(Candidatas(p, c))].Descripcion}
            Col(nombre) == Indice(encabezados, nombre)
        IN  /\ \E r \in {actualizar_salidas(encabezados, calendario, diario, ult'.fallo)} :
                  \A k \in 1..Len(r.salidas) :
                     EsLaPrimera(r.salidas[k].ID_Registro, r.salidas[k].Colaborador,
                                 r.salidas[k].HoraSalida, r.salidas[k].Descripcion)
            /\ idAuto =>
                  \A i \in 1..Len(calendario) :
                     (calendario[i][Col("HoraSalida")] = ""
                      /\ calendario'[i][Col("HoraSalida")] # "") =>
                         EsLaPrimera(calendario[i][Col("ID_Registro")],
                                     calendario[i][Col("Colaborador")],
                                     calendario'[i][Col("HoraSalida")],
                                     calendario'[i][Col("Descripcion")])
      ]_vars

\* a run of actualizar_salidas has just closed a row with an exit event of its
\* collaborator while the log holds another exit of that collaborator, before
\* the row's entry or after the exit chosen
C3_Testigo ==
    /\ ult.op = "salidas" /\ ult.ok /\ pc = "minutos"
    /\ \E i \in 1..Len(calendario) : \E z, y \in 1..Len(diario) :
          /\ calendario[i][Indice(encabezados, "HoraSalida")] = diario[z].Hora
          /\ y # z
          /\ diario[y].Etapa = "Salida"
          /\ diario[y].Colaborador = calendario[i][Indice(encabezados, "Colaborador")]

----------------------------------------------------------------------------
(* Properties of calcular_minutos *)

\* the cell of the ledger row fila under the header nombre
Campo(fila, nombre) == fila[Indice(encabezados, nombre)]

\* whether a text is an hour of the day, written H:M or H:M:S
EsHora(t) ==
    LET Valida(p) ==
            /\ Len(p) \in {2, 3}
            /\ \A k \in 1..Len(p) : Len(p[k]) \in {1, 2} /\ EsNumero(p[k])
            /\ Numero(p[1]) <= 23
            /\ \A k \in 2..Len(p) : Numero(p[k]) <= 59
    IN  Valida(Partes(Strip(t), ":"))

\* the seconds from midnight to an hour of the day
Segundos(t) ==
    LET Suma(p) == 3600 * Numero(p[1]) + 60 * Numero(p[2])
                   + (IF Len(p) = 3 THEN Numero(p[3]) ELSE 0)
    IN  Suma(Partes(Strip(t), ":"))

\* whether a text is a date written with three numbers
EsFecha(t) ==
    LET Valida(p) == Len(p) = 3 /\ \A k \in 1..3 : EsNumero(p[k])
    IN  Valida(Partes(t, "/"))

\* whether a ledger row is closed and has well-formed hours
ConHoras(fila) ==
    /\ Campo(fila, "HoraSalida") # ""
    /\ EsHora(Campo(fila, "HoraEntrada"))
    /\ EsHora(Campo(fila, "HoraSalida"))

\* the rules of the schedule table, by position, that are of the row's
\* collaborator and whose days cover the weekday of the row's FechaEntrada
ReglasDelDia(fila) ==
    LET Dia(f) == IF f.estado = "error" THEN 0 ELSE Indice(dias_name, dia_espanol(f))
        Cubre(r, d) ==
            /\ Indice(dias_name, r[1]) > 0
            /\ d >= Indice(dias_name, r[1])
            /\ d <= Indice(dias_name, r[Len(r)])
        Del(d) == {j \in 1..Len(horario) :
                      /\ horario[j].Colaborador = Campo(fila, "Colaborador")
                      /\ Cubre(Partes(horario[j].dias, "-"), d)}
    IN  Del(Dia(to_datetime(Campo(fila, "FechaEntrada"))))

\* C4: in every pass of calcular_minutos, whatever API call fails in it, a row
\* whose Minutos is not empty gives no calculo, no cell of the batch lies in
\* its row, and its three minute cells are after the pass what they were.
C4_MinutosNoReescritos ==
    [][(pc = "minutos" /\ pc' = "entradas") =>
        \A i \in 1..Len(calendario) :
           Campo(calendario[i], "Minutos") # "" =>
              /\ \A n \in {"Minutos", "Minutos_normales", "Minutos_extras"} :
                    Campo(calendario'[i], n) = Campo(calendario[i], n)
              /\ \E r \in {calcular_minutos(encabezados, calendario, horario, ult'.fallo)} :
                    /\ \A k \in 1..Len(r.lote) : r.lote[k].fila # i + 1
                    /\ \A k \in 1..Len(r.calculos) :
                          r.calculos[k].ID_Calendario # Campo(calendario[i], "ID_Calendario")
      ]_vars

\* a pass has just written the minutes of a row of Ana into a ledger that holds
\* a row of Luis whose minutes were there before the pass
C4_Testigo ==
    /\ ult.op = "minutos" /\ ult.ok /\ ult.fallo = "ninguno"
    /\ \E i, j \in 1..Len(calendario) :
          /\ Campo(calendario[i], "Colaborador") = "Luis"
          /\ Campo(calendario[i], "Minutos_normales") = "510"
          /\ Campo(calendario[j], "Colaborador") = "Ana"
          /\ Campo(calendario[j], "Minutos") # ""

\* C5: every row that holds its minutes and whose collaborator has no rule
\* covering the weekday of the row's FechaEntrada (no rule of the day, or no
\* rule at all) holds Minutos_normales equal to Minutos and Minutos_extras 0.
C5_SinHorarioTodoNormal ==
    \A i \in 1..Len(calendario) :
       (Campo(calendario[i], "Minutos") # "" /\ ReglasDelDia(calendario[i]) = {}) =>
          /\ Campo(calendario[i], "Minutos_normales") = Campo(calendario[i], "Minutos")
          /\ Campo(calendario[i], "Minutos_extras") = "0"

\* C6: every row that holds its minutes and for which a rule of the day gives a
\* window holds, for such a rule, Minutos_extras equal to the whole minutes of
\* max(0, start - entry) + max(0, exit - end) and Minutos_normales equal to
\* Minutos less Minutos_extras.
C6_ExtrasDeLaVentana ==
    \A i \in 1..Len(calendario) :
       LET Extras(inicio, fin, entrada, salida) ==
               ((IF inicio > entrada THEN inicio - entrada ELSE 0)
                + (IF salida > fin THEN salida - fin ELSE 0)) \div 60
           Ventanas(S) == {j \in S : EsHora(horario[j].hora_entrada)
                                     /\ EsHora(horario[j].hora_salida)}
           Vale(j) ==
               \E x \in {Extras(Segundos(horario[j].hora_entrada),
                                Segundos(horario[j].hora_salida),
                                Segundos(Campo(calendario[i], "HoraEntrada")),
                                Segundos(Campo(calendario[i], "HoraSalida")))} :
                  /\ Campo(calendario[i], "Minutos_extras") = ToString(x)
                  /\ Campo(calendario[i], "Minutos_normales")
                        = ToString(Numero(Campo(calendario[i], "Minutos")) - x)
       IN  (/\ Campo(calendario[i], "Minutos") # ""
            /\ ConHoras(calendario[i])
            /\ Ventanas(ReglasDelDia(calendario[i])) # {}) =>
              \E j \in Ventanas(ReglasDelDia(calendario[i])) : Vale(j)

\* C7: every closed row with well-formed hours that holds its minutes holds in
\* Minutos the minutes of its exit less the minutes of its entry, a day added
\* when the difference is negative, the minutes of an hour being counted whole
\* either before or after the subtraction.
C7_MinutosTotales ==
    \A i \in 1..Len(calendario) :
       LET Dia(d, dia) == IF d < 0 THEN d + dia ELSE d
           Total(entrada, salida) ==
               {Dia((salida \div 60) - (entrada \div 60), 1440),
                Dia(salida - entrada, 86400) \div 60}
       IN  (Campo(calendario[i], "Minutos") # "" /\ ConHoras(calendario[i])) =>
              \E m \in Total(Segundos(Campo(calendario[i], "HoraEntrada")),
                             Segundos(Campo(calendario[i], "HoraSalida"))) :
                 Campo(calendario[i], "Minutos") = ToString(m)

\* C8: in a pass of calcular_minutos in which no API call fails and no row
\* that waits for its minutes with well-formed hours has a text that is no date,
\* the stage returns True, every row that waits with an hour text that is no
\* hour keeps its three minute cells empty, and every other row that waits
\* holds its three minute cells after the pass.
C8_HoraMalFormadaOmitida ==
    [][(/\ pc = "minutos" /\ pc' = "entradas"
        /\ ult'.fallo = "ninguno"
        /\ \A j \in 1..Len(calendario) :
              (Campo(calendario[j], "Minutos") = "" /\ ConHoras(calendario[j])) =>
                 \/ Campo(calendario[j], "FechaEntrada") = ""
                 \/ EsFecha(Campo(calendario[j], "FechaEntrada")))
       =>
       /\ ult'.ok
       /\ \A i \in 1..Len(calendario) :
             (Campo(calendario[i], "Minutos") = ""
              /\ Campo(calendario[i], "HoraSalida") # "") =>
                \A n \in {"Minutos", "Minutos_normales", "Minutos_extras"} :
                   Campo(calendario'[i], n) = "" <=> ~ConHoras(calendario[i])
      ]_vars

\* a pass has just returned True leaving without minutes a closed row one of
\* whose hours is 25:99, and with its minutes the row of Ana that waited
C8_Testigo ==
    /\ ult.op = "minutos" /\ ult.ok /\ ult.fallo = "ninguno"
    /\ \E i, j \in 1..Len(calendario) :
          /\ "25:99" \in {Campo(calendario[i], "HoraEntrada"),
                          Campo(calendario[i], "HoraSalida")}
          /\ Campo(calendario[i], "Minutos") = ""
          /\ Campo(calendario[j], "HoraEntrada") = "08:30"
          /\ Campo(calendario[j], "HoraSalida") = "18:45"
          /\ Campo(calendario[j], "Minutos") = "615"

\* C9: after a pass of calcular_minutos in which no API call failed and that
\* met a closed row with well-formed hours whose FechaEntrada is no date, that
\* row has no minutes and every other closed row with well-formed hours and a
\* well-formed date holds its minutes.
C9_FechaMalFormadaLocal ==
    (/\ ult.op = "minutos" /\ ult.fallo = "ninguno"
     /\ \E j \in 1..Len(calendario) :
           /\ ConHoras(calendario[j])
           /\ Campo(calendario[j], "FechaEntrada") # ""
           /\ ~EsFecha(Campo(calendario[j], "FechaEntrada"))) =>
       \A i \in 1..Len(calendario) :
          IF ConHoras(calendario[i]) /\ EsFecha(Campo(calendario[i], "FechaEntrada"))
          THEN Campo(calendario[i], "Minutos") # ""
          ELSE ConHoras(calendario[i]) => Campo(calendario[i], "Minutos") = ""

\* C10: a run that went through its three stages ends with exit code 0 exactly
\* when the three stages returned True and with exit code 1 when one of them
\* returned False; a run whose constructor raises ends with exit code 1.
C10_CodigoDeSalida ==
    /\ ult.op = "minutos" =>
          /\ Len(resultados) = 3
          /\ codigo = 0 <=> (resultados[1] /\ resultados[2] /\ resultados[3])
          /\ codigo = 1 <=> (~resultados[1] \/ ~resultados[2] \/ ~resultados[3])
    /\ ult.op = "configurar" => codigo = 1

\* a run has ended with exit code 1 after its first stage failed and its two
\* other stages returned True
C10_Testigo ==
    /\ ult.op = "minutos" /\ pc = "entradas"
    /\ resultados = <<FALSE, TRUE, TRUE>>
    /\ codigo = 1

----------------------------------------------------------------------------
(* Properties of a run when a read fails *)

\* C11: a stage whose read of a sheet fails leaves the ledger as it was, and
\* after a first or second stage whose read failed no further stage of the
\* invocation runs.
C11_LecturaFallidaAborta ==
    [][LET Lecturas == {"leer_calendario", "leer_diario", "leer_horario"}
       IN  /\ (pc' # pc /\ ult'.fallo \in Lecturas) =>
                 (calendario' = calendario /\ encabezados' = encabezados)
           /\ (ult.op \in {"entradas", "salidas"} /\ ult.fallo \in Lecturas) =>
                 pc' = pc
      ]_vars

\* C12: a run of procesar_nuevas_entradas returns True and leaves the ledger
\* as it was both when no raw event after the event of the ledger's last
\* ID_Registro is an Entrada and when the read of the ledger or of the raw log
\* fails.
C12_IngestionSinNovedad ==
    [][(pc = "entradas" /\ pc' = "salidas") =>
        LET ancla == calendario[Len(calendario)][Indice(encabezados, "ID_Registro")]
            SinNuevas ==
                \E p \in 1..Len(diario) :
                   /\ diario[p].ID = ancla
                   /\ \A q \in (p + 1)..Len(diario) : diario[q].Etapa # "Entrada"
        IN  (\/ ult'.fallo \in {"leer_calendario", "leer_diario"}
             \/ (ult'.fallo = "ninguno" /\ SinNuevas)) =>
               (ult'.ok /\ calendario' = calendario)
      ]_vars

----------------------------------------------------------------------------
(* procesar_nuevas_entradas on the ledgers and raw logs a workbook can hold *)

\* the data rows of a ledger of the study
MaxFilas == 3

\* the ID_Registro values of the rows of the study: IDs of raw events, and one
\* the raw log does not hold
IdsDeEstudio == {"e1", "e2", "e3", "e0"}

\* an open ledger row whose ID_Registro is id
FilaDeEstudio(id) ==
    FilaNueva([Colaborador |-> "Ana", HoraEntrada |-> "08:30:00",
               FechaEntrada |-> "15/09/2025", ID_Registro |-> id])

\* the sequences of at most n different IDs
SeriesDeIds(n) ==
    UNION {{s \in [1..m -> IdsDeEstudio] : \A i, j \in 1..m : s[i] = s[j] => i = j} :
           m \in 0..n}

\* the raw logs of at most n events
DiariosDeEstudio(n) ==
    UNION {{[k \in 1..m |-> Evento(ps[k], k)] : ps \in [1..m -> Plantillas]} : m \in 1..n}

\* a ledger of no row or of some open rows, under its header row, and a raw log
InitIngestion ==
    /\ idAuto \in BOOLEAN
    /\ \E ids \in SeriesDeIds(MaxFilas) :
          calendario = HojaCalculada(EncabezadoCalendario, Mapear(FilaDeEstudio, ids), idAuto)
    /\ diario \in DiariosDeEstudio(MaxDiario)
    /\ encabezados = EncabezadoCalendario
    /\ horario = HorarioBase
    /\ pc = "entradas"
    /\ resultados = <<>>
    /\ codigo = SinCodigo
    /\ vistos = 0
    /\ ult = SinEtapa
    /\ AjenasEnReposo

NextIngestion == ProcesarNuevasEntradas

SpecIngestion == InitIngestion /\ [][NextIngestion]_vars

\* the ID_Registro values of the rows a step appended to the ledger
IdsAgregados ==
    {Campo(calendario'[k], "ID_Registro") : k \in (Len(calendario) + 1)..Len(calendario')}

\* the IDs of the raw events of stage Entrada at 1-based positions desde and later
IdsDeEntradasDesde(desde) ==
    {diario[p].ID : p \in {q \in desde..Len(diario) : diario[q].Etapa = "Entrada"}}

\* C13: a run of procesar_nuevas_entradas, none of whose API calls fails, on a
\* ledger with no data row returns True and appends one row for every raw
\* event of stage Entrada, the first raw event included.
C13_LibroVacioDesdeElInicio ==
    [][(pc = "entradas" /\ pc' = "salidas" /\ calendario = <<>>
        /\ ult'.fallo = "ninguno") =>
          (ult'.ok /\ IdsAgregados = IdsDeEntradasDesde(1))
      ]_vars

\* C14: when the ID_Registro of the ledger's last row is the ID of no raw
\* event, a run of procesar_nuevas_entradas, none of whose API calls fails,
\* appends the rows of the raw events of stage Entrada from the position given
\* by the number of rows of the ledger: those after the first n raw events, or
\* those from the n-th raw event on, n being that number.
C14_AnclaPerdidaDesdeElConteo ==
    [][(/\ pc = "entradas" /\ pc' = "salidas" /\ calendario # <<>>
        /\ ult'.fallo = "ninguno"
        /\ \A p \in 1..Len(diario) :
              diario[p].ID # Campo(calendario[Len(calendario)], "ID_Registro")) =>
          (\/ IdsAgregados = IdsDeEntradasDesde(Len(calendario) + 1)
           \/ IdsAgregados = IdsDeEntradasDesde(Len(calendario)))
      ]_vars

----------------------------------------------------------------------------
(* The write stages on the header rows and ledger rows a workbook can hold *)

\* the data rows of a ledger of the study
MaxHoja == 2

\* the headers the two write helpers look up in the header row
EncabezadosDeSalidas ==
    {"ID_Calendario", "HoraSalida", "FechaSalida", "Descripcion", "Extratime"}

EncabezadosDeMinutos ==
    {"ID_Calendario", "Minutos", "Minutos_normales", "Minutos_extras"}

\* the header rows of the study: the ledger's, and the ledger's with one of the
\* headers of the write helpers renamed
EncabezadosDeEstudio ==
    {EncabezadoCalendario} \cup
    {[EncabezadoCalendario EXCEPT ![Indice(EncabezadoCalendario, h)] = "Otra"] :
        h \in EncabezadosDeSalidas \cup EncabezadosDeMinutos}

\* the rows of the study: an open row of the first raw event, a closed row
\* entered by hand with no ID_Registro, a closed row with an ID_Registro, and
\* a row whose minutes are there
FilasDeHoja ==
    {FilaDeEstudio("e1"),
     FilaCerrada("Ana", "09:00:00", "17:30:00", "15/09/2025"),
     [FilaCerrada("Ana", "08:30", "18:45", "15/09/2025") EXCEPT
         ![Indice(EncabezadoCalendario, "ID_Registro")] = "e0"],
     <<"Luis", "09:00:00", "17:30:00", "15/09/2025", "15/09/2025", "", "No",
       "510", "510", "0", "", "", "", "">>}

\* the ledgers of at most n rows
LibrosDeEstudio(n) == UNION {[1..m -> FilasDeHoja] : m \in 0..n}

\* the raw logs of the study: an entry of Ana, alone or followed by her exit
DiariosDeHoja ==
    {<<Evento([Colaborador |-> "Ana", Etapa |-> "Entrada"], 1)>>,
     <<Evento([Colaborador |-> "Ana", Etapa |-> "Entrada"], 1),
       Evento([Colaborador |-> "Ana", Etapa |-> "Salida"], 2)>>}

\* an invocation after its first stage returned True, on a header row, a
\* ledger and a raw log of the study
InitHojas ==
    /\ encabezados \in EncabezadosDeEstudio
    /\ idAuto \in BOOLEAN
    /\ \E filas \in LibrosDeEstudio(MaxHoja) :
          calendario = HojaCalculada(encabezados, filas, idAuto)
    /\ diario \in DiariosDeHoja
    /\ horario = HorarioBase
    /\ pc = "salidas"
    /\ resultados = <<TRUE>>
    /\ codigo = SinCodigo
    /\ vistos = Len(diario)
    /\ ult = [op |-> "entradas", fallo |-> "ninguno", ok |-> TRUE]
    /\ AjenasEnReposo

NextHojas ==
    \/ ActualizarSalidas
    \/ CalcularMinutos

SpecHojas == InitHojas /\ [][NextHojas]_vars

\* whether the lookup of the write helpers finds no sheet row for ledger row i
SinFila(i) ==
    fila_encontrada(ValoresAN(encabezados, calendario),
                    Indice(encabezados, "ID_Calendario"),
                    Campo(calendario[i], "ID_Calendario")) = 0

\* the open rows for which the raw log holds the entry event and, at or after
\* it, an exit of the row's collaborator
FilasConSalida ==
    {i \in 1..Len(calendario) :
        /\ Campo(calendario[i], "HoraSalida") = ""
        /\ \E j \in 1..Len(diario) :
              /\ diario[j].ID = Campo(calendario[i], "ID_Registro")
              /\ \E z \in j..Len(diario) :
                    /\ diario[z].Etapa = "Salida"
                    /\ diario[z].Colaborador = Campo(calendario[i], "Colaborador")}

\* the closed rows with well-formed hours and date whose Minutos is empty
FilasPorCalcular ==
    {i \in 1..Len(calendario) :
        /\ Campo(calendario[i], "Minutos") = ""
        /\ ConHoras(calendario[i])
        /\ to_datetime(Campo(calendario[i], "FechaEntrada")).estado # "error"}

\* C15: in a pass of actualizar_salidas or of calcular_minutos, none of whose
\* API calls fails, on a ledger with its whole header row, the rows with
\* something to write for which the write helper finds no sheet row are left
\* as they were and the pass returns True, also when the helper finds no row
\* for any of them.
C15_FilaNoHalladaOmitida ==
    [][(ult'.fallo = "ninguno" /\ encabezados = EncabezadoCalendario) =>
        /\ (/\ pc = "salidas"
            /\ pc' = "minutos"
            /\ \E k \in FilasConSalida : SinFila(k)) =>
              /\ ult'.ok
              /\ \A k \in FilasConSalida : SinFila(k) => calendario'[k] = calendario[k]
        /\ (/\ pc = "minutos"
            /\ pc' = "entradas"
            /\ \A i \in 1..Len(calendario) :
                  (Campo(calendario[i], "Minutos") = ""
                   /\ Campo(calendario[i], "HoraSalida") # "") => i \in FilasPorCalcular
            /\ \E k \in FilasPorCalcular : SinFila(k)) =>
              /\ ult'.ok
              /\ \A k \in FilasPorCalcular : SinFila(k) => calendario'[k] = calendario[k]
      ]_vars

\* the cell of a ledger row in the column where the ledger's header row, as the
\* workbook was laid out, has the name
Cell(fila, nombre) == fila[Indice(EncabezadoCalendario, nombre)]

\* whether the raw log gives an exit to write into some open row: the log holds
\* the row's entry event and, at or after it, an exit of its collaborator
HaySalidasPorEscribir ==
    \E i \in 1..Len(calendario) :
       /\ Cell(calendario[i], "HoraSalida") = ""
       /\ \E j \in 1..Len(diario) :
             /\ diario[j].ID = Cell(calendario[i], "ID_Registro")
             /\ \E z \in j..Len(diario) :
                   /\ diario[z].Etapa = "Salida"
                   /\ diario[z].Colaborador = Cell(calendario[i], "Colaborador")

\* whether some closed row with well-formed hours waits for its minutes
HayMinutosPorEscribir ==
    \E i \in 1..Len(calendario) :
       /\ Cell(calendario[i], "Minutos") = ""
       /\ Cell(calendario[i], "HoraSalida") # ""
       /\ EsHora(Cell(calendario[i], "HoraEntrada"))
       /\ EsHora(Cell(calendario[i], "HoraSalida"))

\* C16: when the header row lacks a header that the write helper of a stage
\* looks up, a pass of that stage, whatever API call fails in it, leaves every
\* cell of the ledger as it was, and returns False when it has something to
\* write.
C16_EncabezadoFaltante ==
    [][/\ (/\ pc = "salidas"
           /\ pc' = "minutos"
           /\ \E h \in EncabezadosDeSalidas : Indice(encabezados, h) = 0) =>
             /\ calendario' = calendario
             /\ encabezados' = encabezados
             /\ HaySalidasPorEscribir => ~ult'.ok
       /\ (/\ pc = "minutos"
           /\ pc' = "entradas"
           /\ \E h \in EncabezadosDeMinutos : Indice(encabezados, h) = 0) =>
             /\ calendario' = calendario
             /\ encabezados' = encabezados
             /\ HayMinutosPorEscribir => ~ult'.ok
      ]_vars

\* a pass of actualizar_salidas, none of whose API calls failed, has just
\* returned False on a ledger whose header row lacks Descripcion and that held
\* an open row whose exit is in the raw log
C16_Testigo ==
    /\ pc = "minutos"
    /\ ult = [op |-> "salidas", fallo |-> "ninguno", ok |-> FALSE]
    /\ Indice(encabezados, "Descripcion") = 0
    /\ HaySalidasPorEscribir

----------------------------------------------------------------------------
(* Properties of the writes of a stage *)

\* C17: the ledger a stage leaves is either the ledger it found or the ledger
\* that the one write of its failure-free pass leaves, which is made from the
\* whole scan of the ledger and tables it found; a stage that returns False
\* leaves the ledger it found, whatever API call failed in it.
C17_UnaEscrituraPorEtapa ==
    [][(pc' # pc) =>
        /\ ~ult'.ok => (calendario' = calendario /\ encabezados' = encabezados)
        /\ pc = "entradas" =>
              \E r \in {procesar_nuevas_entradas(encabezados, calendario, diario, idAuto,
                                                 "ninguno")} :
                 /\ calendario' \in {calendario, r.filas}
                 /\ Len(r.filas) - Len(calendario) = Len(r.entradas)
        /\ pc = "salidas" =>
              \E r \in {actualizar_salidas(encabezados, calendario, diario, "ninguno")} :
                 /\ calendario' \in {calendario, r.filas}
                 /\ r.filas = Tail(AplicarLote(<<encabezados>> \o calendario, r.lote))
        /\ pc = "minutos" =>
              \E r \in {calcular_minutos(encabezados, calendario, horario, "ninguno")} :
                 /\ calendario' \in {calendario, r.filas}
                 /\ r.filas = Tail(AplicarLote(<<encabezados>> \o calendario, r.lote))
      ]_vars

\* procesar_nuevas_entradas has just returned False because its write failed:
\* the last raw event is an entry that the ledger does not hold
C17_Testigo ==
    /\ pc = "salidas"
    /\ ult = [op |-> "entradas", fallo |-> "escribir", ok |-> FALSE]
    /\ diario[Len(diario)].Etapa = "Entrada"
    /\ \A k \in 1..Len(calendario) :
          Campo(calendario[k], "ID_Registro") # diario[Len(diario)].ID

----------------------------------------------------------------------------
(* Properties of whole invocations *)

\* whether the raw events that procesar_nuevas_entradas read hold, after the
\* entry at position p, an exit of the same collaborator
ConSalidaLeida(p) ==
    \E q \in (p + 1)..vistos :
       diario[q].Etapa = "Salida" /\ diario[q].Colaborador = diario[p].Colaborador

\* whether some ledger row is the record of the raw event at position p,
\* closed and with its three minute cells filled
RegistroCompleto(p) ==
    \E k \in 1..Len(calendario) :
       /\ Campo(calendario[k], "ID_Registro") = diario[p].ID
       /\ Campo(calendario[k], "HoraSalida") # ""
       /\ \A n \in {"Minutos", "Minutos_normales", "Minutos_extras"} :
             Campo(calendario[k], n) # ""

\* C18: when an invocation ends with its three stages having returned True,
\* every entry that was in the raw log when the invocation read it, with an
\* exit of the same collaborator after it, has a ledger row with its
\* ID_Registro, closed and with its three minute cells filled.
C18_UnaInvocacionCompleta ==
    (pc = "entradas" /\ ult.op = "minutos" /\ codigo = 0) =>
       \A p \in 1..vistos :
          (diario[p].Etapa = "Entrada" /\ ConSalidaLeida(p)) => RegistroCompleto(p)

\* the raw events of a day of the study
MaxJornada == 5

\* a workbook at the end of a day: the hand-entered row of the first raw
\* event, an entry of Ana, and the raw log of the whole day
InitJornada ==
    /\ idAuto \in BOOLEAN
    /\ diario \in {d \in DiariosDeEstudio(MaxJornada) :
                      /\ Len(d) = MaxJornada
                      /\ d[1].Colaborador = "Ana"
                      /\ d[1].Etapa = "Entrada"}
    /\ calendario = <<FilaInicial(diario[1], diario[1].ID)>>
    /\ encabezados = EncabezadoCalendario
    /\ horario = HorarioBase
    /\ pc = "entradas"
    /\ resultados = <<>>
    /\ codigo = SinCodigo
    /\ vistos = 0
    /\ ult = SinEtapa
    /\ AjenasEnReposo

NextJornada ==
    \/ ProcesarNuevasEntradas
    \/ ActualizarSalidas
    \/ CalcularMinutos

SpecJornada == InitJornada /\ [][NextJornada]_vars

\* the ledger that one more invocation leaves, in which the API calls f1, f2
\* and f3 of its three stages fail, is the ledger as it is
InvocacionSinEfecto(f1, f2, f3) ==
    \E r1 \in {procesar_nuevas_entradas(encabezados, calendario, diario, idAuto, f1)} :
       \E r2 \in {actualizar_salidas(r1.enc, r1.filas, diario, f2)} :
          \E r3 \in {calcular_minutos(r1.enc, r2.filas, horario, f3)} :
             r1.enc = encabezados /\ r3.filas = calendario

\* C19: when an invocation has ended with its three stages having returned
\* True and the raw log is the one it read, one more invocation, whatever API
\* calls fail in it, leaves the ledger with the rows and the cells it has.
C19_InvocacionRepetida ==
    (pc = "entradas" /\ ult.op = "minutos" /\ codigo = 0 /\ vistos = Len(diario)) =>
       \A f1 \in {"ninguno", "leer_calendario", "leer_diario", "escribir"} :
          \A f2 \in {"ninguno", "leer_calendario", "leer_diario", "escribir"} :
             \A f3 \in {"ninguno", "leer_calendario", "leer_horario", "escribir"} :
                InvocacionSinEfecto(f1, f2, f3)

\* the cells of a row that procesar_nuevas_entradas fills
CamposDeEntrada == {"Colaborador", "HoraEntrada", "FechaEntrada", "ID_Registro"}

\* the cells of a row that the two later stages fill
CamposDeCierre ==
    {"HoraSalida", "FechaSalida", "Descripcion", "Extratime", "Minutos",
     "Minutos_normales", "Minutos_extras"}

\* C20: every step of a stage leaves every row of the ledger in its place, with
\* its entry cells as they were and with each of its exit and minute cells as
\* it was when that cell was not empty.
C20_RegistrosHaciaAdelante ==
    [][(pc' # pc) =>
        /\ Len(calendario') >= Len(calendario)
        /\ \A k \in 1..Len(calendario) :
              /\ \A n \in CamposDeEntrada :
                    Campo(calendario'[k], n) = Campo(calendario[k], n)
              /\ \A n \in CamposDeCierre :
                    Campo(calendario[k], n) # "" =>
                       Campo(calendario'[k], n) = Campo(calendario[k], n)
      ]_vars

----------------------------------------------------------------------------
(* Properties of the minutes a pass writes *)

\* the integer that the sheet shows as the text t
Entero(t) ==
    IF Len(t) > 1 /\ Letra(t, 1) = "-" THEN 0 - Numero(SubSeq(t, 2, Len(t)))
    ELSE Numero(t)

\* the rows into which a step of calcular_minutos puts their minutes
FilasCalculadas ==
    {i \in 1..Len(calendario) :
        Campo(calendario[i], "Minutos") = "" /\ Campo(calendario'[i], "Minutos") # ""}

\* C26: in every row into which a pass of calcular_minutos puts its minutes,
\* Minutos_normales plus Minutos_extras is Minutos.
C26_NormalesMasExtras ==
    [][(pc = "minutos" /\ pc' = "entradas") =>
        \A i \in FilasCalculadas :
           Entero(Campo(calendario'[i], "Minutos_normales"))
           + Entero(Campo(calendario'[i], "Minutos_extras"))
              = Entero(Campo(calendario'[i], "Minutos"))
      ]_vars

\* C27: in every row into which a pass of calcular_minutos puts its minutes,
\* Minutos_normales is not negative and Minutos_extras lies between 0 and
\* Minutos.
C27_MinutosEnRango ==
    [][(pc = "minutos" /\ pc' = "entradas") =>
        \A i \in FilasCalculadas :
           /\ Entero(Campo(calendario'[i], "Minutos_normales")) >= 0
           /\ Entero(Campo(calendario'[i], "Minutos_extras")) >= 0
           /\ Entero(Campo(calendario'[i], "Minutos_extras"))
                 <= Entero(Campo(calendario'[i], "Minutos"))
      ]_vars

----------------------------------------------------------------------------
(* calcular_minutos on the day ranges and dates a workbook can hold *)

\* day ranges of a rule: ranges, single days, a range that ends before it
\* starts, and ranges that name a day the list of days does not hold
RangosDeRegla ==
    {"Lunes-Viernes", "Martes-Jueves", "Sabado-Domingo", "Viernes-Lunes", "Lunes",
     "Sabado", "Lunes-Feriado", "Feriado"}

\* entry dates of a row, written day/month/year as the workbook's forms and
\* reports write them: a Monday, a Wednesday, a Saturday and a Sunday whose day
\* is no month, and a Saturday and a Monday whose day is also a month
FechasDeRegla ==
    {"15/09/2025", "17/09/2025", "20/09/2025", "21/09/2025", "06/09/2025", "01/09/2025"}

\* a rule of collaborator c for the days dias, with the window 09:00 to 18:00
ReglaDe(c, dias) ==
    [Colaborador |-> c, dias |-> dias, hora_entrada |-> "09:00", hora_salida |-> "18:00"]

\* schedule tables: one rule of Ana, alone or followed by the week of Luis
HorariosDeRegla ==
    {<<ReglaDe("Ana", r)>> : r \in RangosDeRegla}
    \cup {<<ReglaDe("Ana", r), ReglaDe("Luis", "Lunes-Viernes")>> : r \in RangosDeRegla}

\* ledgers: a closed row of Ana that waits for its minutes, a closed row of
\* Luis that waits for its minutes, or both in either order
LibrosDeRegla ==
    LET DeAna(fe) == FilaCerrada("Ana", "08:30", "18:45", fe)
        DeLuis == FilaCerrada("Luis", "08:30", "18:45", "15/09/2025")
    IN  {Numerar(<<DeLuis>>)}
        \cup UNION {{Numerar(<<DeAna(fe)>>), Numerar(<<DeAna(fe), DeLuis>>),
                     Numerar(<<DeLuis, DeAna(fe)>>)} : fe \in FechasDeRegla}

InitReglas ==
    /\ calendario \in LibrosDeRegla
    /\ horario \in HorariosDeRegla
    /\ diario = <<Evento([Colaborador |-> "Ana", Etapa |-> "Entrada"], 1)>>
    /\ encabezados = EncabezadoCalendario
    /\ idAuto = TRUE
    /\ pc = "minutos"
    /\ resultados = <<TRUE, TRUE>>
    /\ codigo = SinCodigo
    /\ vistos = 0
    /\ ult = [op |-> "salidas", fallo |-> "ninguno", ok |-> TRUE]
    /\ AjenasEnReposo

NextReglas == CalcularMinutos

SpecReglas == InitReglas /\ [][NextReglas]_vars

\* the position in the list of days of the weekday of a date written
\* day/month/year
DiaDeFecha(t) ==
    LET Del(p) == Indice(dias_name,
                         dias_map[day_name([estado |-> "fecha", a |-> Numero(p[3]),
                                            m |-> Numero(p[2]), d |-> Numero(p[1])])])
    IN  Del(Partes(t, "/"))

\* whether the days of a rule, both in the list of days, cover the position d
RangoCubre(dias, d) ==
    LET Entre(r) == /\ Indice(dias_name, r[1]) <= d
                    /\ d <= Indice(dias_name, r[Len(r)])
    IN  Entre(Partes(dias, "-"))

\* whether every day a rule names is in the list of days
RangoBienFormado(dias) ==
    LET Todos(r) == Indice(dias_name, r[1]) > 0 /\ Indice(dias_name, r[Len(r)]) > 0
    IN  Todos(Partes(dias, "-"))

\* C24: in a pass of calcular_minutos in which no API call fails, on a
\* schedule table whose rules name days of the list only, every row of Ana that
\* waits gets its minutes, and it gets those of the window of Ana's rule (540
\* normal, 75 extra) exactly when the weekday of its FechaEntrada lies between
\* the first and the last day of the rule, and 0 and 0 otherwise.
C24_RangoDeDias ==
    [][(/\ pc = "minutos"
        /\ pc' = "entradas"
        /\ ult'.fallo = "ninguno"
        /\ \A j \in 1..Len(horario) : RangoBienFormado(horario[j].dias)) =>
        \A i \in 1..Len(calendario) :
           (Campo(calendario[i], "Colaborador") = "Ana"
            /\ Campo(calendario[i], "Minutos") = "") =>
              /\ Campo(calendario'[i], "Minutos") = "615"
              /\ IF RangoCubre(horario[1].dias, DiaDeFecha(Campo(calendario[i], "FechaEntrada")))
                 THEN /\ Campo(calendario'[i], "Minutos_normales") = "540"
                      /\ Campo(calendario'[i], "Minutos_extras") = "75"
                 ELSE /\ Campo(calendario'[i], "Minutos_normales") = "0"
                      /\ Campo(calendario'[i], "Minutos_extras") = "0"
      ]_vars

\* C30: in a pass of calcular_minutos in which no API call fails, on a
\* schedule table in which a rule of Ana names a day that the list of days
\* does not hold, every row of Luis that waits gets its minutes.
C30_ReglaAjenaMalFormada ==
    [][(/\ pc = "minutos"
        /\ pc' = "entradas"
        /\ ult'.fallo = "ninguno"
        /\ \E j \in 1..Len(horario) :
              horario[j].Colaborador = "Ana" /\ ~RangoBienFormado(horario[j].dias)) =>
        \A i \in 1..Len(calendario) :
           (Campo(calendario[i], "Colaborador") = "Luis"
            /\ Campo(calendario[i], "Minutos") = "") =>
              Campo(calendario'[i], "Minutos") = "615"
      ]_vars

----------------------------------------------------------------------------
(* Properties of the rows a stage writes *)

\* the positions of the raw events of stage Entrada after position a
EntradasTras(a) == {q \in (a + 1)..Len(diario) : diario[q].Etapa = "Entrada"}

\* the n-th position, in the order of the raw log, of a set of positions
Enesima(S, n) == CHOOSE q \in S : Cardinality({x \in S : x <= q}) = n

\* whether a ledger row is the open row of a raw event: the event's
\* collaborator, hour, date and ID, and every other cell empty but
\* ID_Calendario, which is the workbook's
FilaAbiertaDe(fila, ev) ==
    /\ Campo(fila, "Colaborador") = ev.Colaborador
    /\ Campo(fila, "HoraEntrada") = ev.Hora
    /\ Campo(fila, "FechaEntrada") = ev.Fecha
    /\ Campo(fila, "ID_Registro") = ev.ID
    /\ \A n \in CamposDeCierre \cup {"Libre1", "Libre2"} : Campo(fila, n) = ""

\* C22: a run of procesar_nuevas_entradas, none of whose API calls fails, on a
\* ledger whose last ID_Registro is the ID of the raw event at position a,
\* returns True, leaves the rows of the ledger as they were and appends, in the
\* order of the raw log, one open row for each raw event of stage Entrada after
\* position a, and no other row.
C22_UnaFilaPorEntradaNueva ==
    [][(pc = "entradas" /\ pc' = "salidas" /\ ult'.fallo = "ninguno"
        /\ calendario # <<>>) =>
        \A a \in 1..Len(diario) :
           diario[a].ID = Campo(calendario[Len(calendario)], "ID_Registro") =>
              /\ ult'.ok
              /\ Len(calendario') = Len(calendario) + Cardinality(EntradasTras(a))
              /\ \A k \in 1..Len(calendario) : calendario'[k] = calendario[k]
              /\ \A n \in 1..Cardinality(EntradasTras(a)) :
                    FilaAbiertaDe(calendario'[Len(calendario) + n],
                                  diario[Enesima(EntradasTras(a), n)])
      ]_vars

\* a run has just returned True on a ledger that ended with the row of e1 and
\* a raw log whose second event is an exit and whose third is an entry: the
\* row after that of e1 is the row of e3
C22_Testigo ==
    /\ pc = "salidas"
    /\ ult = [op |-> "entradas", fallo |-> "ninguno", ok |-> TRUE]
    /\ Len(diario) >= 3
    /\ diario[2].Etapa = "Salida"
    /\ \E k \in 1..(Len(calendario) - 1) :
          /\ Campo(calendario[k], "ID_Registro") = "e1"
          /\ Campo(calendario[k], "HoraEntrada") = "08:30:00"
          /\ Campo(calendario[k + 1], "ID_Registro") = "e3"

\* the sheet row that the lookup of the write helpers finds for ledger row k
\* is the sheet row of ledger row k, when it finds one
FilaPropia(k) ==
    fila_encontrada(ValoresAN(encabezados, calendario),
                    Indice(encabezados, "ID_Calendario"),
                    Campo(calendario[k], "ID_Calendario")) \in {0, k + 1}

\* C29: when actualizar_salidas is about to run, the lookup of its write helper
\* finds for every open row that has an exit in the raw log the sheet row of
\* that row, and when calcular_minutos is about to run, the lookup of its write
\* helper finds for every row that waits for its minutes the sheet row of that
\* row.
C29_CeldasEnLaFilaPropia ==
    /\ pc = "salidas" => \A k \in FilasConSalida : FilaPropia(k)
    /\ pc = "minutos" => \A k \in FilasPorCalcular : FilaPropia(k)

\* C28: no two rows of the ledger of the same collaborator are closed with the
\* same exit event: they do not hold the same hour, date and description of
\* exit.
C28_UnaSalidaUnRegistro ==
    \A k1, k2 \in 1..Len(calendario) :
       (/\ k1 # k2
        /\ Campo(calendario[k1], "Colaborador") = Campo(calendario[k2], "Colaborador")
        /\ Campo(calendario[k1], "HoraSalida") # "") =>
          \E n \in {"HoraSalida", "FechaSalida", "Descripcion"} :
             Campo(calendario[k1], n) # Campo(calendario[k2], n)

\* the position of the exit event that closes ledger row k: the first raw event
\* of stage Salida and of the row's collaborator at or after the row's entry
\* event
SalidaDe(k) ==
    Min({z \in 1..Len(diario) :
           /\ diario[z].Etapa = "Salida"
           /\ diario[z].Colaborador = Campo(calendario[k], "Colaborador")
           /\ \E j \in 1..z : diario[j].ID = Campo(calendario[k], "ID_Registro")})

\* the four cells of a closed row, from the exit event ev
CeldasDeSalida(ev) ==
    [n \in {"HoraSalida", "FechaSalida", "Descripcion", "Extratime"} |->
        CASE n = "HoraSalida" -> ev.Hora
          [] n = "FechaSalida" -> ev.Fecha
          [] n = "Descripcion" -> ev.Descripcion
          [] n = "Extratime" -> IF ev.Captura = "" THEN "No" ELSE "Si"]

\* C23: a pass of actualizar_salidas that returns True leaves in every open row
\* that has an exit in the raw log the hour, date and description of that exit
\* and Si or No as the exit has a capture or not, and leaves every other cell
\* of the ledger as it was.
C23_CuatroCeldasPorSalida ==
    [][(pc = "salidas" /\ pc' = "minutos" /\ ult'.ok) =>
        /\ Len(calendario') = Len(calendario)
        /\ \A k \in 1..Len(calendario) :
              \A c \in 1..Len(encabezados) :
                 calendario'[k][c] =
                    IF k \in FilasConSalida
                       /\ encabezados[c] \in DOMAIN CeldasDeSalida(diario[1])
                    THEN CeldasDeSalida(diario[SalidaDe(k)])[encabezados[c]]
                    ELSE calendario[k][c]
      ]_vars

----------------------------------------------------------------------------
(* The payments script: checkpagos.verificar_y_actualizar_pagos on the sheets
   PAGOS and PAGOSCHECK *)

\* most data rows of PAGOS
MaxPagos == 2

\* datetime.strptime(s, "%d/%m/%Y"): a day and a month of one or two digits, a
\* year of four, nothing before or after, and a day the month has; any other
\* text raises ValueError
strptime_dmY(s) ==
    LET partes == Partes(s, "/")
        d == Numero(partes[1])
        m == Numero(partes[2])
        a == Numero(partes[3])
    IN  IF /\ Len(partes) = 3
           /\ Len(partes[1]) \in {1, 2} /\ EsNumero(partes[1])
           /\ Len(partes[2]) \in {1, 2} /\ EsNumero(partes[2])
           /\ Len(partes[3]) = 4 /\ EsNumero(partes[3])
           /\ a >= 1 /\ m \in 1..12 /\ d \in 1..DiasDelMes(m, a)
        THEN [estado |-> "fecha", a |-> a, m |-> m, d |-> d]
        ELSE [estado |-> "error", a |-> 0, m |-> 0, d |-> 0]

\* fecha_pago < hoy of two datetimes: fecha_pago is the first instant of its
\* day, hoy carries the time of day of datetime.today()
fecha_antes_de(fecha_pago, ahora) ==
    \/ fecha_pago.a < ahora.a
    \/ fecha_pago.a = ahora.a /\ fecha_pago.m < ahora.m
    \/ fecha_pago.a = ahora.a /\ fecha_pago.m = ahora.m /\ fecha_pago.d < ahora.d
    \/ /\ fecha_pago.a = ahora.a /\ fecha_pago.m = ahora.m /\ fecha_pago.d = ahora.d
       /\ (ahora.seg > 0 \/ ahora.us > 0)

\* the test of a payment dated today as a comparison of days
fecha_antes_del_dia(fecha_pago, ahora) ==
    \/ fecha_pago.a < ahora.a
    \/ fecha_pago.a = ahora.a /\ fecha_pago.m < ahora.m
    \/ fecha_pago.a = ahora.a /\ fecha_pago.m = ahora.m /\ fecha_pago.d < ahora.d

\* the check of one period: the body of the loop over periodos
check_de(fecha_pago_str, ahora) ==
    LET fecha_pago == strptime_dmY(fecha_pago_str)
    IN  IF fecha_pago.estado = "error" THEN ""
        ELSE IF fecha_antes_de(fecha_pago, ahora) THEN "Listo" ELSE ""

\* the texts of the column fecha_pago, in the order SQLite compares them
FechasDePago ==
    <<"", "14/09/2025", "15/09/2025", "15/9/2025", "16/09/2025", "2025-09-15",
      "31/09/2025">>

\* the collaborators, in the order SQLite compares them
ColaboradoresDePago == <<"Ana", "Luis">>

\* the rows of PAGOS: Colaborador, periodo_inicio, periodo_fin, fecha_pago
FilasDePago ==
    {<<ColaboradoresDePago[c], q[1], q[2], FechasDePago[t]>> :
        c \in 1..Len(ColaboradoresDePago),
        q \in {<<"01/09/2025", "15/09/2025">>, <<"16/08/2025", "31/08/2025">>},
        t \in 1..Len(FechasDePago)}

\* the place of a group of the query among the groups, by Colaborador and then
\* by fecha_pago
RangoDeGrupo(g) ==
    Indice(ColaboradoresDePago, g[1]) * (Len(FechasDePago) + 1)
        + Indice(FechasDePago, g[2])

RECURSIVE GruposEnOrden(_)
\* the groups of GROUP BY Colaborador, fecha_pago in the order the query
\* returns them
GruposEnOrden(G) ==
    IF G = {} THEN <<>>
    ELSE LET g == CHOOSE x \in G : \A y \in G : RangoDeGrupo(x) <= RangoDeGrupo(y)
         IN  <<g>> \o GruposEnOrden(G \ {g})

\* the rows of PAGOS of one group
FilasDeGrupo(filas, g) ==
    {k \in 1..Len(filas) : filas[k][1] = g[1] /\ filas[k][4] = g[2]}

\* the choices SQLite has for the bare columns periodo_inicio and periodo_fin:
\* one row of each group
Elecciones(filas) ==
    LET grupos == GruposEnOrden({<<filas[k][1], filas[k][4]>> : k \in 1..Len(filas)})
    IN  {e \in [1..Len(grupos) -> 1..Len(filas)] :
            \A n \in 1..Len(grupos) : e[n] \in FilasDeGrupo(filas, grupos[n])}

\* the frame periodos after the loop: one row per group, with its check
periodos_de(filas, eleccion, ahora) ==
    LET grupos == GruposEnOrden({<<filas[k][1], filas[k][4]>> : k \in 1..Len(filas)})
    IN  [n \in 1..Len(grupos) |->
            <<grupos[n][1], filas[eleccion[n]][2], filas[eleccion[n]][3],
              grupos[n][2], check_de(grupos[n][2], ahora)>>]

EncabezadoPagosCheck ==
    <<"Colaborador", "periodo_inicio", "periodo_fin", "fecha_pago", "check">>

\* escribir_hoja: header and rows written from the first cell of the sheet; the
\* rows the sheet had below them stay
escribir_hoja(hoja, periodos, disponible) ==
    IF ~disponible THEN [ok |-> FALSE, hoja |-> hoja]
    ELSE LET values == <<EncabezadoPagosCheck>> \o periodos
         IN  [ok |-> TRUE,
              hoja |-> values \o SubSeq(hoja, Len(values) + 1, Len(hoja))]

\* verificar_y_actualizar_pagos: its result and the sheet PAGOSCHECK it leaves.
\* A sheet PAGOS with no data row gives a frame without the column names and
\* the query raises
verificar_y_actualizar_pagos(filas, hoja, ahora, eleccion, fallo) ==
    IF fallo \in {"configurar", "leer"} \/ filas = <<>>
    THEN [ok |-> FALSE, hoja |-> hoja]
    ELSE escribir_hoja(hoja, periodos_de(filas, eleccion, ahora), fallo # "escribir")

\* the instants of the study, in order: the eve, the first instant of
\* 15/09/2025, the first microsecond after it, its morning, the day after
Relojes ==
    <<[a |-> 2025, m |-> 9, d |-> 14, seg |-> 36000, us |-> 0],
      [a |-> 2025, m |-> 9, d |-> 15, seg |-> 0, us |-> 0],
      [a |-> 2025, m |-> 9, d |-> 15, seg |-> 0, us |-> 1],
      [a |-> 2025, m |-> 9, d |-> 15, seg |-> 36000, us |-> 0],
      [a |-> 2025, m |-> 9, d |-> 16, seg |-> 36000, us |-> 0]>>

\* the engine's workbook, which the payments script does not read
MotorEnReposo ==
    /\ diario = <<>>
    /\ encabezados = EncabezadoCalendario
    /\ calendario = <<>>
    /\ horario = <<>>
    /\ idAuto = FALSE
    /\ pc = "entradas"
    /\ resultados = <<>>
    /\ codigo = SinCodigo
    /\ vistos = 0
    /\ ult = SinEtapa
    /\ corridas = [r \in Corridas |-> SinEmpezar]

InitPagos ==
    /\ MotorEnReposo
    /\ pagos \in UNION {[1..n -> FilasDePago] : n \in 0..MaxPagos}
    /\ pagoscheck = <<>>
    /\ hoy \in {Relojes[k] : k \in 1..Len(Relojes)}
    /\ codigo_pagos = SinCodigoPagos

\* the script runs: python checkpagos.py
VerificarYActualizarPagos ==
    /\ \E f \in {"ninguno", "configurar", "leer", "escribir"} :
          \E e \in (IF pagos = <<>> THEN {<<>>} ELSE Elecciones(pagos)) :
              \E r \in {verificar_y_actualizar_pagos(pagos, pagoscheck, hoy, e, f)} :
                  /\ pagoscheck' = r.hoja
                  /\ codigo_pagos' = codigo_de_salida(r.ok)
    /\ UNCHANGED <<diario, encabezados, calendario, horario, idAuto, pc, resultados,
                   codigo, vistos, ult, corridas, pagos, hoy>>

\* time passes between two runs of the script
PasaElTiempo ==
    /\ \E k \in 1..Len(Relojes) :
          /\ Indice(Relojes, hoy) < k
          /\ hoy' = Relojes[k]
    /\ UNCHANGED <<diario, encabezados, calendario, horario, idAuto, pc, resultados,
                   codigo, vistos, ult, corridas, pagos, pagoscheck, codigo_pagos>>

NextPagos ==
    \/ VerificarYActualizarPagos
    \/ PasaElTiempo

SpecPagos == InitPagos /\ [][NextPagos]_vars

\* C25: a run of verificar_y_actualizar_pagos that returns True leaves 'Listo'
\* in the check of a period exactly when its fecha_pago is a date whose day is
\* before the day of the run, and leaves the check empty otherwise: for a
\* payment dated the day of the run, for a later one and for a text that is no
\* date.
C25_ListoSoloSiElDiaPaso ==
    [][(hoy' = hoy /\ codigo_pagos' = 0) =>
          \A k \in 2..Len(pagoscheck') :
             pagoscheck'[k][5] =
                IF /\ strptime_dmY(pagoscheck'[k][4]).estado = "fecha"
                   /\ fecha_antes_del_dia(strptime_dmY(pagoscheck'[k][4]), hoy)
                THEN "Listo" ELSE ""
      ]_vars

----------------------------------------------------------------------------
(* Two invocations at once: the ingestion stage as the four requests it sends,
   those of one invocation interleaved with those of the other *)

\* the row after the last occupied row of column A, taken as that row itself
ultima_fila_sin_sumar(enc, filas) ==
    LET hoja == <<enc>> \o filas
        llenasA == {k \in 1..Len(hoja) : hoja[k][1] # ""}
    IN  IF llenasA = {} THEN 0 ELSE Max(llenasA)

\* ultima_fila of escribir_a_sheets: len of the values of A:A, plus one
ultima_fila_de(enc, filas) ==
    LET hoja == <<enc>> \o filas
        llenasA == {k \in 1..Len(hoja) : hoja[k][1] # ""}
    IN  (IF llenasA = {} THEN 0 ELSE Max(llenasA)) + 1

\* values().update of escribir_a_sheets: datos written from row ultima_fila of
\* the sheet as it is when the request arrives
actualizar_desde(enc, filas, datos, ultima_fila, auto) ==
    LET hoja == <<enc>> \o filas
        fin == ultima_fila + Len(datos) - 1
        largo == IF fin > Len(hoja) THEN fin ELSE Len(hoja)
        nueva == [k \in 1..largo |->
                     IF k >= ultima_fila /\ k <= fin
                     THEN datos[k - ultima_fila + 1]
                     ELSE hoja[k]]
    IN  [enc |-> nueva[1], filas |-> HojaCalculada(nueva[1], Tail(nueva), auto)]

\* procesar_nuevas_entradas between its reads and its write: whether it
\* returns there, what it returns, and the rows it goes on to write
buscar_entradas(registro_calendario, registro_diario) ==
    LET falso == [fin |-> TRUE, ok |-> FALSE, datos |-> <<>>]
    IN  IF registro_calendario.nulo \/ registro_diario.nulo THEN falso
        ELSE IF Len(registro_calendario.filas) = 0 \/ registro_diario.n = 0 THEN falso
        ELSE IF SinColumna(registro_calendario, "ID_Registro") THEN falso
        ELSE IF ~registro_diario.con_nombres THEN falso
        ELSE LET Seguir(entradas) ==
                     IF entradas = <<>>
                     THEN [fin |-> TRUE, ok |-> TRUE, datos |-> <<>>]
                     ELSE [fin |-> FALSE, ok |-> FALSE,
                           datos |-> Mapear(FilaNueva, entradas)]
             IN  Seguir(entradas_nuevas(registro_diario.filas,
                                        Celda(registro_calendario,
                                              Len(registro_calendario.filas),
                                              "ID_Registro")))

\* the other invocation
Otra(r) == 3 - r

\* the invocation ends returning False
Fallida(c) == [c EXCEPT !.pc = "fin", !.ok = FALSE]

\* invocation r starts and reads REGISTRO_CALENDARIO
LeerCalendario(r) ==
    /\ corridas[r].pc = "inicio"
    /\ \E disponible \in BOOLEAN :
          corridas' = [corridas EXCEPT
              ![r] = [@ EXCEPT !.pc = "leer_diario",
                               !.tras = corridas[Otra(r)].pc,
                               !.registro_calendario =
                                   leer_hoja(encabezados, calendario, disponible)]]
    /\ UNCHANGED <<diario, encabezados, calendario, horario, idAuto, pc, resultados,
                   codigo, vistos, ult, pagos, pagoscheck, hoy, codigo_pagos>>

\* invocation r reads REGISTRO_DIARIO and searches the new entradas
LeerDiario(r) ==
    /\ corridas[r].pc = "leer_diario"
    /\ \E disponible \in BOOLEAN :
          \E b \in {buscar_entradas(corridas[r].registro_calendario,
                                    leer_registros(diario, disponible))} :
              corridas' = [corridas EXCEPT
                  ![r] = IF b.fin THEN [@ EXCEPT !.pc = "fin", !.ok = b.ok]
                         ELSE [@ EXCEPT !.pc = "medir", !.datos = b.datos]]
    /\ UNCHANGED <<diario, encabezados, calendario, horario, idAuto, pc, resultados,
                   codigo, vistos, ult, pagos, pagoscheck, hoy, codigo_pagos>>

\* escribir_a_sheets of invocation r reads column A
Medir(r) ==
    /\ corridas[r].pc = "medir"
    /\ \E disponible \in BOOLEAN :
          corridas' = [corridas EXCEPT
              ![r] = IF disponible
                     THEN [@ EXCEPT !.pc = "escribir",
                                    !.ultima_fila = ultima_fila_de(encabezados, calendario)]
                     ELSE Fallida(@)]
    /\ UNCHANGED <<diario, encabezados, calendario, horario, idAuto, pc, resultados,
                   codigo, vistos, ult, pagos, pagoscheck, hoy, codigo_pagos>>

\* escribir_a_sheets of invocation r writes its rows, and the stage returns
Escribir(r) ==
    /\ corridas[r].pc = "escribir"
    /\ \E disponible \in BOOLEAN :
          IF disponible
          THEN \E h \in {actualizar_desde(encabezados, calendario, corridas[r].datos,
                                          corridas[r].ultima_fila, idAuto)} :
                  /\ encabezados' = h.enc
                  /\ calendario' = h.filas
                  /\ corridas' = [corridas EXCEPT
                                     ![r] = [@ EXCEPT !.pc = "fin", !.ok = TRUE]]
          ELSE /\ corridas' = [corridas EXCEPT ![r] = Fallida(@)]
               /\ UNCHANGED <<encabezados, calendario>>
    /\ UNCHANGED <<diario, horario, idAuto, pc, resultados, codigo, vistos, ult,
                   pagos, pagoscheck, hoy, codigo_pagos>>

NextCarrera ==
    \/ NuevoEvento
    \/ \E r \in Corridas : LeerCalendario(r)
    \/ \E r \in Corridas : LeerDiario(r)
    \/ \E r \in Corridas : Medir(r)
    \/ \E r \in Corridas : Escribir(r)

SpecCarrera == Init /\ [][NextCarrera]_vars

\* whether one invocation started while the other was under way
Solapadas == \E r \in Corridas : corridas[r].tras \notin {"inicio", "fin"}

\* the ledger rows that record raw event id
RegistrosDe(id) ==
    {k \in 1..Len(calendario) : Campo(calendario[k], "ID_Registro") = id}

\* C21: of two invocations that run their ingestion stage one after the other,
\* no raw event gets two ledger rows and every row an invocation wrote is in
\* the ledger; two invocations that overlap can leave one raw event with two
\* ledger rows.
C21_SinSolapeSinDuplicados ==
    ~Solapadas =>
        /\ \A n \in 1..Len(diario) : Cardinality(RegistrosDe(diario[n].ID)) <= 1
        /\ \A r \in Corridas :
              (corridas[r].pc = "fin" /\ corridas[r].ok) =>
                  \A n \in 1..Len(corridas[r].datos) :
                     RegistrosDe(corridas[r].datos[n][ColumnasAN]) # {}

\* both invocations overlapped, returned True, and a raw event has two rows
C21_Testigo ==
    /\ Solapadas
    /\ \A r \in Corridas : corridas[r].pc = "fin" /\ corridas[r].ok
    /\ \E n \in 1..Len(diario) : Cardinality(RegistrosDe(diario[n].ID)) = 2

====
